---------------------------- MODULE Spec2Model ----------------------------
(***************************************************************************)
(* A model of citadel's task layer (src/citadel/tasks.py): the deploy,     *)
(* removal and upgrade workflows, the gRPC stream probe, the progress      *)
(* channel reader and the tackle throttle, together with the parts of      *)
(* src/citadel/models/container.py and src/citadel/views/ajax.py they use. *)
(***************************************************************************)
EXTENDS Integers, Sequences, FiniteSets, TLC

(***************************************************************************)
(* Bounds of the model.                                                    *)
(***************************************************************************)
MaxStream == 2
MaxPublish == 3
MaxWorkers == 2
MaxCooldown == 1
MaxTime == 2
MaxWait == 3
MaxEvents == 1
MaxRules == 2

VARIABLES
    probe,       \* _peek_grpc on its own: the call, the peekable, what the caller read
    containers,  \* the container table: a sequence of rows
    next_pk,     \* the table's autoincrement primary key
    elb,         \* ids of the containers that are load-balancer backends
    published,   \* every rds.publish so far: <<channel, content>> in order
    oplog,       \* the audit entries OPLog.create wrote
    notified,    \* the messages notbot_sendmsg sent
    remote,      \* the calls made to the remote scheduler (core)
    creating,    \* the frame of create_container
    removing,    \* the frame of remove_container
    entry,       \* the HTTP handler that dispatched the running task
    pubsub,      \* redis' side of the reader's connection: subscriptions, undelivered items
    stream,      \* the frame of celery_task_stream_response
    ended,       \* the task ids whose task has ended and published its sentinel
    now,         \* the clock, in seconds
    rds,         \* the throttling keys in redis: key -> the time it expires at
    workers,     \* the frames of the TackleTask.__call__ invocations
    upgrading,   \* the frame of upgrade_container, wait_for_erection included
    watch,       \* the health writes of the watch service: which row, and when
    agent,       \* the frame of deal_with_agent_etcd_change
    request,     \* the timeouts the running upgrade was called with, where recorded
    tackling     \* the frame of tackle_single_app

world == <<containers, next_pk, elb, published, oplog, notified, remote>>
reader == <<pubsub, stream, ended>>
tackle == <<rds, workers, tackling>>
upgrade == <<upgrading, watch>>
vars == <<probe, containers, next_pk, elb, published, oplog, notified, remote,
          creating, removing, entry, pubsub, stream, ended, now, rds, workers,
          upgrading, watch, agent, request, tackling>>

(***************************************************************************)
(* Remote streams (grpc face) and more_itertools.peekable.                 *)
(***************************************************************************)
\* the transport faults tasks.py:47-49 names
FaultKinds == {"RemoteError", "RemoteShutdownError", "AbortionError"}

\* ids the remote scheduler hands out for new containers
NewIds == {"n1", "n2"}

\* a stream message as tasks.py reads it: m.id, m.success and the error text
\* m.message, kept as the set of the recognised phrases the text contains
CreateMsgs == [id : NewIds, success : BOOLEAN, message : {{}}]

\* a remote call in flight: the elements it has yielded so far, the read at
\* which the transport failed (0: none has), and whether it has ended
NoCall == [items |-> <<>>, faultAt |-> 0, faultKind |-> "none", stopped |-> FALSE]

NoItem == [id |-> "", success |-> FALSE, message |-> {}]

\* the remote scheduler reports success for one container id once: it issues
\* an id to one new container, and it removes a container once
Fresh(it, m) ==
    m.success => \A i \in 1..Len(it.items) : ~(it.items[i].success /\ it.items[i].id = m.id)

\* what the remote side can answer to one read of a stream of elements of S:
\* one more element (no more than MaxStream of them), a transport fault, or
\* the end of the stream
Outcomes(S, it) ==
    {[kind |-> "item", val |-> m] :
        m \in IF Len(it.items) < MaxStream THEN {x \in S : Fresh(it, x)} ELSE {}}
    \cup [kind : FaultKinds \cup {"StopIteration"}, val : {NoItem}]

\* next(call), the remote side answering o
IterNext(it, o) ==
    IF o.kind = "item"
    THEN [kind |-> "item", val |-> o.val, it |-> [it EXCEPT !.items = Append(@, o.val)]]
    ELSE IF o.kind = "StopIteration"
    THEN [kind |-> "StopIteration", val |-> NoItem, it |-> [it EXCEPT !.stopped = TRUE]]
    ELSE [kind |-> o.kind, val |-> NoItem,
          it |-> [it EXCEPT !.faultAt = Len(it.items) + 1, !.faultKind = o.kind]]

\* peekable(call)
peekable(call) == [it |-> call, cache |-> <<>>]

ProbeIdle == [pc |-> "off", ms |-> peekable(NoCall), got |-> <<>>, code |-> 0]

\* peekable.peek() on an empty cache: the element read is kept for next()
PeekFill(ms, r) == [it |-> r.it, cache |-> Append(ms.cache, r.val)]

\* peekable.peek(): StopIteration and faults of the read pass through
peek(ms, o) ==
    IF ms.cache # <<>>
    THEN [kind |-> "item", ms |-> ms]
    ELSE LET r == IterNext(ms.it, o)
         IN IF r.kind = "item"
            THEN [kind |-> "item", ms |-> PeekFill(ms, r)]
            ELSE [kind |-> r.kind, ms |-> [ms EXCEPT !.it = r.it]]

\* next(peekable): the cache first, then the underlying iterator
PeekableNext(ms, o) ==
    IF ms.cache # <<>>
    THEN [kind |-> "item", val |-> Head(ms.cache),
          ms |-> [ms EXCEPT !.cache = Tail(@)]]
    ELSE LET r == IterNext(ms.it, o)
         IN [kind |-> r.kind, val |-> r.val, ms |-> [ms EXCEPT !.it = r.it]]

\* _peek_grpc without the peek(): the peekable handed back unread
PeekGrpcUnread(call, o) == [kind |-> "return", code |-> 0, ms |-> peekable(call)]

\* _peek_grpc(call): the outcome is "return" with the peekable, "ActionError"
\* with its code, or the StopIteration that peek() lets through
_peek_grpc(call, o) ==
    LET r == peek(peekable(call), o)
    IN IF r.kind \in {"RemoteError", "RemoteShutdownError"}
       THEN [kind |-> "ActionError", code |-> 500, ms |-> r.ms]
       ELSE IF r.kind = "AbortionError"
       THEN [kind |-> "ActionError", code |-> 500, ms |-> r.ms]
       ELSE IF r.kind = "StopIteration"
       THEN [kind |-> "StopIteration", code |-> 0, ms |-> r.ms]
       ELSE [kind |-> "return", code |-> 0, ms |-> r.ms]

(***************************************************************************)
(* The container table (models/container.py) and the shared sinks.         *)
(***************************************************************************)
\* ContainerOverrideStatus
NONE == 0
DEBUG == 1
REMOVING == 2

Zones == {"z1", "z2"}

\* self.request.id: a dispatched task has an id, a task called directly none
NoTask == "None"
TaskIds == {"t1", "t2"}

Range(f) == {f[i] : i \in DOMAIN f}

NoErr == [type |-> "none", code |-> 0]
Err(type, code) == [type |-> type, code |-> code]

NoRow == [pk |-> 0, container_id |-> "", appname |-> "", zone |-> "",
          override_status |-> NONE, initialized |-> 0, healthy |-> FALSE]

\* Container.create: the new row; deploy_info starts empty, so Healthy is unset
Container_create(rows, pk, appname, container_id, zone, override_status) ==
    Append(rows, [pk |-> pk, container_id |-> container_id, appname |-> appname,
                  zone |-> zone, override_status |-> override_status,
                  initialized |-> 0, healthy |-> FALSE])

\* Container.get_by_container_id: the first row of the query, or None (NoRow)
get_by_container_id(rows, container_id) ==
    LET hits == SelectSeq(rows, LAMBDA c : c.container_id = container_id)
    IN IF hits = <<>> THEN NoRow ELSE Head(hits)

\* a publish that puts the message in front of the earlier ones
PublishInFront(log, channel_name, content) ==
    <<[channel |-> channel_name, content |-> content]>> \o log

\* rds.publish(channel_name, content)
rds_publish(log, channel_name, content) ==
    Append(log, [channel |-> channel_name, content |-> content])

\* what redis does with a PUBLISH: the message goes to the connection when it
\* is subscribed to the channel at that moment, and is dropped otherwise
Deliver(ps, channel_name, content) ==
    IF channel_name \in ps.subs
    THEN [ps EXCEPT !.inbox = Append(@, [type |-> "message", channel |-> channel_name,
                                         data |-> content])]
    ELSE ps

NoPubSub == [subs |-> {}, inbox |-> <<>>]

StreamIdle == [pc |-> "idle", ids |-> <<>>, channels |-> {}, yielded |-> <<>>, sub_at |-> 0]

\* TASK_PUBSUB_CHANNEL.format(task_id=task_id) if task_id else None
channel_name(task_id) == task_id

\* json.dumps(m, cls=JSONEncoder) + '\n'
json_dumps(m) == [kind |-> "json", body |-> m]

(***************************************************************************)
(* create_container (tasks.py:102-150)                                     *)
(***************************************************************************)
CreateIdle ==
    [pc |-> "idle", task_id |-> NoTask, zone |-> "", debug |-> FALSE,
     ms |-> peekable(NoCall), good_news |-> <<>>, bad_news |-> <<>>, res |-> <<>>,
     err |-> NoErr, pk0 |-> 0]

\* a record for every message, successful or not
RegistersAlways(m) == TRUE

\* "if m.success:" decides whether a record is registered for the message
Registers(m) == m.success

\* override_status of a new record: DEBUG if deploy_options['debug'] else NONE
NewOverrideStatus(debug) == IF debug THEN DEBUG ELSE NONE

\* lines 104-117: the remote call, the probe, and the empty tallies
CreateCall(task_id, zone, debug, o) ==
    /\ creating.pc = "idle"
    /\ remote' = Append(remote, [op |-> "create_container", zone |-> zone, ids |-> <<>>])
    /\ LET r == _peek_grpc(NoCall, o)
       IN creating' = [creating EXCEPT
              !.pc = IF r.kind = "return" THEN "loop" ELSE "raised",
              !.task_id = task_id, !.zone = zone, !.debug = debug,
              !.ms = r.ms,
              !.err = IF r.kind = "return" THEN NoErr ELSE Err(r.kind, r.code),
              !.pk0 = next_pk]
    /\ UNCHANGED <<containers, next_pk, elb, published, oplog, notified, pubsub>>

\* lines 118-141: one turn of "for m in ms"; db_fails is Container.create
\* raising IntegrityError (container.py:62-65)
CreateLoop ==
    /\ creating.pc = "loop"
    /\ \E db_fails \in BOOLEAN, o \in Outcomes(CreateMsgs, creating.ms.it) :
        LET r == PeekableNext(creating.ms, o)
            m == r.val
        IN IF r.kind = "item"
           THEN /\ published' = rds_publish(published, channel_name(creating.task_id), json_dumps(m))
                /\ pubsub' = Deliver(pubsub, channel_name(creating.task_id), json_dumps(m))
                /\ IF Registers(m)
                   THEN IF db_fails
                        THEN /\ creating' = [creating EXCEPT
                                    !.ms = r.ms, !.res = Append(@, m),
                                    !.good_news = Append(@, json_dumps(m)),
                                    !.pc = "raised", !.err = Err("IntegrityError", 0)]
                             /\ UNCHANGED <<containers, next_pk, oplog>>
                        ELSE /\ creating' = [creating EXCEPT
                                    !.ms = r.ms, !.res = Append(@, m),
                                    !.good_news = Append(@, json_dumps(m))]
                             /\ containers' = Container_create(containers, next_pk, "app",
                                                  m.id, creating.zone, NewOverrideStatus(creating.debug))
                             /\ next_pk' = next_pk + 1
                             /\ oplog' = Append(oplog, [op |-> "CREATE_CONTAINER", id |-> m.id])
                   ELSE /\ db_fails = FALSE
                        /\ creating' = [creating EXCEPT
                               !.ms = r.ms, !.res = Append(@, m),
                               !.bad_news = Append(@, json_dumps(m))]
                        /\ UNCHANGED <<containers, next_pk, oplog>>
           ELSE /\ db_fails = FALSE
                /\ creating' = [creating EXCEPT
                       !.ms = r.ms,
                       !.pc = IF r.kind = "StopIteration" THEN "notify" ELSE "raised",
                       !.err = IF r.kind = "StopIteration" THEN NoErr ELSE Err(r.kind, 0)]
                /\ UNCHANGED <<containers, next_pk, published, oplog, pubsub>>
    /\ UNCHANGED <<elb, notified, remote>>

\* a summary that carries the bad-news section and the tag in every case
SummaryAlwaysTagged(good_news, bad_news) ==
    [to |-> "subscribers", about |-> "Deploy", good |-> good_news, bad |-> bad_news,
     tag |-> TRUE]

\* lines 143-147: msg; tag says the message has its BAD NEWS section, with
\* the maintainer's handle
Summary(good_news, bad_news) ==
    [to |-> "subscribers", about |-> "Deploy", good |-> good_news, bad |-> bad_news,
     tag |-> bad_news # <<>>]

\* lines 143-150: the summary and the return of res
CreateNotify ==
    /\ creating.pc = "notify"
    /\ notified' = Append(notified, Summary(creating.good_news, creating.bad_news))
    /\ creating' = [creating EXCEPT !.pc = "done"]
    /\ UNCHANGED <<containers, next_pk, elb, published, oplog, remote, pubsub>>

(***************************************************************************)
(* remove_container (tasks.py:172-221)                                     *)
(***************************************************************************)
\* the app whose containers are the load balancer itself
ELB_APP_NAME == "erulb"

\* the error texts the remote scheduler answers a failed removal with, as the
\* set of the phrases tasks.py:211-213 looks for in m.message
Phrases == {{}, {"Key not found"}, {"No such container"},
            {"Container ID must be length of"}}

\* the messages of a removal stream about the containers ids
RemoveMsgs(ids) ==
    [id : ids, success : {TRUE}, message : {{}}]
    \cup [id : ids, success : {FALSE}, message : Phrases]

RemoveIdle ==
    [pc |-> "idle", task_id |-> NoTask, ids |-> <<>>, cs |-> <<>>, zone |-> "",
     ms |-> peekable(NoCall), res |-> <<>>, err |-> NoErr]

\* remove_container.delay(ids) and the direct call remove_container(ids): the
\* task is handed its arguments and starts at line 174
RemoveQueued(task_id, ids) ==
    [RemoveIdle EXCEPT !.pc = "queued", !.task_id = task_id, !.ids = ids]

\* a lookup that resolves every registered container, whatever the ids
ResolveEveryRow(rows, ids) == rows

\* the lookups with their None's left in
ResolveKeepsNone(rows, ids) ==
    [i \in 1..Len(ids) |-> get_by_container_id(rows, ids[i])]

\* [Container.get_by_container_id(i) for i in ids], without the None's
Resolve(rows, ids) ==
    LET found == [i \in 1..Len(ids) |-> get_by_container_id(rows, ids[i])]
    IN SelectSeq(found, LAMBDA c : c # NoRow)

\* full_ids = [c.container_id for c in containers]
full_ids(cs) == [i \in 1..Len(cs) |-> cs[i].container_id]

\* a mark_removing that writes every column of the loaded object back
MarkRemovingWholeRow(rows, c) ==
    [i \in 1..Len(rows) |->
        IF rows[i].pk = c.pk THEN [c EXCEPT !.override_status = REMOVING] ELSE rows[i]]

\* c.mark_removing(): the UPDATE of the row; when the row is gone the
\* StaleDataError is swallowed and nothing is written
mark_removing(rows, c) ==
    [i \in 1..Len(rows) |->
        IF rows[i].pk = c.pk THEN [rows[i] EXCEPT !.override_status = REMOVING]
        ELSE rows[i]]

\* c.mark_debug(): the UPDATE of the row's override_status; a StaleDataError
\* is swallowed
mark_debug(rows, c) ==
    [i \in 1..Len(rows) |->
        IF rows[i].pk = c.pk THEN [rows[i] EXCEPT !.override_status = DEBUG]
        ELSE rows[i]]

\* an UPDATE that writes every column of the loaded object back
MarkInitializedWholeRow(rows, c) ==
    [i \in 1..Len(rows) |->
        IF rows[i].pk = c.pk THEN [c EXCEPT !.initialized = 1] ELSE rows[i]]

\* a mark_initialized that writes nothing
MarkNothing(rows, c) == rows

\* c.mark_initialized(): the UPDATE sets the one column that was assigned
mark_initialized(rows, c) ==
    [i \in 1..Len(rows) |->
        IF rows[i].pk = c.pk THEN [rows[i] EXCEPT !.initialized = 1] ELSE rows[i]]

\* the commit of mark_initialized raises StaleDataError: there is an UPDATE to
\* flush (the loaded object did not hold 1 already) and its row is gone
StaleData(rows, c) ==
    c.initialized # 1 /\ \A i \in 1..Len(rows) : rows[i].pk # c.pk

\* update_elb_for_containers(container): the default action adds the backend
update_elb_add(backends, c) == backends \cup {c.container_id}

\* a loop that marks the first container only
MarkFirst(rows, cs, n) == IF n = 0 THEN rows ELSE mark_removing(rows, cs[1])

\* mark_removing applied to cs[1], ..., cs[n] in turn
RECURSIVE MarkAll(_, _, _)
MarkAll(rows, cs, n) ==
    IF n = 0 THEN rows ELSE mark_removing(MarkAll(rows, cs, n - 1), cs[n])

\* a detach that empties the load balancer
DetachAll(backends, cs) == {}

\* update_elb_for_containers(containers, UpdateELBAction.REMOVE)
update_elb_remove(backends, cs) == backends \ {cs[i].container_id : i \in 1..Len(cs)}

\* container.delete()
Container_delete(rows, c) == SelectSeq(rows, LAMBDA r : r.pk # c.pk)

\* "if len(zones) != 1"
CrossZone(zones) == Cardinality(zones) # 1

\* any error text at all read as already absent
AlreadyAbsentAnyText(m) == m.message # {}

\* the test that knows one of the two already-absent texts
AlreadyAbsentKeyOnly(m) == "Key not found" \in m.message

\* the already-absent texts read as any failure at all
AlreadyAbsentAlways(m) == TRUE

\* "'Key not found' in m.message or 'No such container' in m.message"
AlreadyAbsent(m) == "Key not found" \in m.message \/ "No such container" \in m.message

\* the loop without its branch for the malformed-id text
MalformedIdNever(m) == FALSE

\* "'Container ID must be length of' in m.message"
MalformedId(m) == "Container ID must be length of" \in m.message

\* lines 174-185: the lookups and the zone check
RemoveCall ==
    /\ removing.pc = "queued"
    /\ LET cs == Resolve(containers, removing.ids)
           zones == {cs[i].zone : i \in 1..Len(cs)}
       IN removing' = [removing EXCEPT
              !.cs = cs,
              !.pc = IF cs = <<>> THEN "done"
                     ELSE IF CrossZone(zones) THEN "raised" ELSE "mark",
              !.err = IF cs # <<>> /\ CrossZone(zones)
                      THEN Err("ActionError", 400) ELSE NoErr,
              !.zone = IF cs # <<>> /\ ~CrossZone(zones) THEN cs[1].zone ELSE ""]
    /\ UNCHANGED <<containers, next_pk, elb, published, oplog, notified, remote, pubsub>>

\* lines 187-188
RemoveMark ==
    /\ removing.pc = "mark"
    /\ containers' = MarkAll(containers, removing.cs, Len(removing.cs))
    /\ removing' = [removing EXCEPT !.pc = "detach"]
    /\ UNCHANGED <<next_pk, elb, published, oplog, notified, remote, pubsub>>

\* line 190
RemoveDetach ==
    /\ removing.pc = "detach"
    /\ elb' = update_elb_remove(elb, removing.cs)
    /\ removing' = [removing EXCEPT !.pc = "probe"]
    /\ UNCHANGED <<containers, next_pk, published, oplog, notified, remote, pubsub>>

\* lines 192-195: the remote call and the probe
RemoveProbe ==
    /\ removing.pc = "probe"
    /\ remote' = Append(remote, [op |-> "remove_container", zone |-> removing.zone,
                                 ids |-> full_ids(removing.cs)])
    /\ \E o \in Outcomes(RemoveMsgs(Range(full_ids(removing.cs))), NoCall) :
        LET r == _peek_grpc(NoCall, o)
        IN removing' = [removing EXCEPT
               !.pc = IF r.kind = "return" THEN "loop" ELSE "raised",
               !.ms = r.ms,
               !.err = IF r.kind = "return" THEN NoErr ELSE Err(r.kind, r.code)]
    /\ UNCHANGED <<containers, next_pk, elb, published, oplog, notified, pubsub>>

\* lines 196-221: one turn of "for m in ms", and the return at its end
RemoveLoop ==
    /\ removing.pc = "loop"
    /\ \E o \in Outcomes(RemoveMsgs(Range(full_ids(removing.cs))), removing.ms.it) :
        LET r == PeekableNext(removing.ms, o)
            m == r.val
            container == get_by_container_id(containers, m.id)
        IN IF r.kind = "item"
           THEN /\ published' = rds_publish(published, channel_name(removing.task_id), json_dumps(m))
                /\ pubsub' = Deliver(pubsub, channel_name(removing.task_id), json_dumps(m))
                /\ removing' = [removing EXCEPT !.ms = r.ms, !.res = Append(@, m)]
                /\ IF container = NoRow
                   THEN UNCHANGED <<containers, oplog, notified>>
                   ELSE IF m.success
                   THEN /\ containers' = Container_delete(containers, container)
                        /\ oplog' = Append(oplog, [op |-> "REMOVE_CONTAINER", id |-> m.id])
                        /\ UNCHANGED notified
                   ELSE IF AlreadyAbsent(m)
                   THEN /\ containers' = Container_delete(containers, container)
                        /\ UNCHANGED <<oplog, notified>>
                   ELSE IF MalformedId(m)
                   THEN UNCHANGED <<containers, oplog, notified>>
                   ELSE /\ notified' = Append(notified,
                               [to |-> "#platform", about |-> m.id,
                                good |-> <<>>, bad |-> <<>>, tag |-> TRUE])
                        /\ UNCHANGED <<containers, oplog>>
           ELSE /\ removing' = [removing EXCEPT
                       !.ms = r.ms,
                       !.pc = IF r.kind = "StopIteration" THEN "done" ELSE "raised",
                       !.err = IF r.kind = "StopIteration" THEN NoErr ELSE Err(r.kind, 0)]
                /\ UNCHANGED <<containers, published, oplog, notified, pubsub>>
    /\ UNCHANGED <<next_pk, elb, remote>>

(***************************************************************************)
(* upgrade_container (tasks.py:224-252) and Container.wait_for_erection    *)
(* (models/container.py:174-198).                                          *)
(***************************************************************************)
\* sleep(2) in wait_for_erection
SleepSeconds == 2

\* erection timeouts, of the caller and of the release's specs, in seconds
Timeouts == 0..MaxWait

\* no upgrade whose arguments are on record
NoRequest == [erection_timeout |-> 0, release_timeout |-> 0, at |-> 0]

UpgradeIdle ==
    [pc |-> "idle", task_id |-> NoTask, old_id |-> "", new_id |-> "", new_pk |-> 0,
     built |-> FALSE, timeout |-> 0, must_end |-> 0, wake_at |-> 0, polls |-> 0,
     deploy_info |-> FALSE, healthy |-> FALSE, target |-> "", err |-> NoErr]

\* make_sentence_json(text): the note's wording and the container it names
make_sentence_json(text, id) ==
    [kind |-> "json", body |-> [id |-> id, success |-> TRUE, message |-> {text}]]

\* the caller's timeout taken as it is, zero included
CallerTimeoutOnly(erection_timeout, release_timeout) == erection_timeout

\* "erection_timeout or release.erection_timeout", and in wait_for_erection
\* "if not timeout: timeout = self.release.specs.erection_timeout"
EffectiveTimeout(erection_timeout, release_timeout) ==
    IF erection_timeout # 0 THEN erection_timeout ELSE release_timeout

\* Container.update_deploy_info with Healthy set, as the watch service writes it
update_deploy_info(rows, pk) ==
    [i \in 1..Len(rows) |->
        IF rows[i].pk = pk THEN [rows[i] EXCEPT !.healthy = TRUE] ELSE rows[i]]

\* the row with primary key pk, as db.session.refresh reads it
RowByPk(rows, pk) ==
    LET hits == SelectSeq(rows, LAMBDA c : c.pk = pk)
    IN IF hits = <<>> THEN NoRow ELSE Head(hits)

\* a release taken for built whatever the store says
ReleaseNeverMissing(built) == FALSE

\* "if not release or not release.image"; built says the release of the sha
\* exists and has its image
ReleaseMissing(built) == ~built

\* lines 227-240: the old container, the release, and the direct call of
\* create_container
UpgradeCall(task_id, old_container_id, built, erection_timeout, release_timeout, o) ==
    /\ upgrading.pc = "idle"
    /\ LET old_container == get_by_container_id(containers, old_container_id)
           bad == old_container = NoRow \/ ReleaseMissing(built)
       IN /\ upgrading' = [upgrading EXCEPT
                 !.pc = IF bad THEN "raised" ELSE "create",
                 !.err = IF old_container = NoRow THEN Err("AttributeError", 0)
                         ELSE IF ReleaseMissing(built) THEN Err("ActionError", 400)
                         ELSE NoErr,
                 !.task_id = task_id, !.old_id = old_container_id, !.built = built,
                 !.timeout = EffectiveTimeout(erection_timeout, release_timeout)]
          /\ IF bad
             THEN UNCHANGED <<containers, next_pk, elb, published, oplog, notified,
                              remote, pubsub, creating>>
             ELSE CreateCall(NoTask, old_container.zone, FALSE, o)

\* lines 240-246: the first message of the create result, the two publishes,
\* the lookup of the new container, and wait_for_erection up to its loop
UpgradeCreated ==
    /\ upgrading.pc = "create"
    /\ creating.pc \in {"done", "raised"}
    /\ LET res == creating.res
           grpc_message == res[1]
           new_container == get_by_container_id(containers, grpc_message.id)
           ch == channel_name(upgrading.task_id)
           first == json_dumps(grpc_message)
           note == make_sentence_json("Wait for container to erect", grpc_message.id)
       IN IF creating.pc = "raised"
          THEN /\ upgrading' = [upgrading EXCEPT !.pc = "raised", !.err = creating.err]
               /\ UNCHANGED <<published, pubsub>>
          ELSE IF res = <<>>
          THEN /\ upgrading' = [upgrading EXCEPT !.pc = "raised", !.err = Err("IndexError", 0)]
               /\ UNCHANGED <<published, pubsub>>
          ELSE IF new_container = NoRow
          THEN /\ upgrading' = [upgrading EXCEPT !.pc = "raised",
                                    !.err = Err("AttributeError", 0)]
               /\ published' = rds_publish(published, ch, first)
               /\ pubsub' = Deliver(pubsub, ch, first)
          ELSE /\ upgrading' = [upgrading EXCEPT
                      !.pc = IF upgrading.timeout = 0 THEN "decide" ELSE "wait",
                      !.healthy = upgrading.timeout = 0,
                      !.new_id = grpc_message.id, !.new_pk = new_container.pk,
                      !.deploy_info = new_container.healthy,
                      !.must_end = now + upgrading.timeout]
               /\ published' = rds_publish(rds_publish(published, ch, first), ch, note)
               /\ pubsub' = Deliver(Deliver(pubsub, ch, first), ch, note)
    /\ UNCHANGED <<containers, next_pk, elb, oplog, notified, remote>>

\* container.py:188-191: "while datetime.now() < must_end", is_healthy() on
\* the copy the process holds, and the start of sleep(2)
WaitCheck ==
    /\ upgrading.pc = "wait"
    /\ upgrading' =
         IF now < upgrading.must_end
         THEN IF upgrading.deploy_info
              THEN [upgrading EXCEPT !.pc = "decide", !.healthy = TRUE, !.polls = @ + 1]
              ELSE [upgrading EXCEPT !.pc = "sleep", !.wake_at = now + SleepSeconds,
                                     !.polls = @ + 1]
         ELSE [upgrading EXCEPT !.pc = "decide", !.healthy = FALSE]
    /\ UNCHANGED now

\* container.py:191-196: sleep(2) returns and deploy_info is refreshed from
\* the store
WaitRefresh ==
    /\ upgrading.pc = "sleep"
    /\ now >= upgrading.wake_at
    /\ upgrading' = [upgrading EXCEPT
           !.pc = "wait",
           !.deploy_info = RowByPk(containers, upgrading.new_pk).healthy]
    /\ UNCHANGED now

\* a second passes while wait_for_erection sleeps
WaitElapse ==
    /\ upgrading.pc = "sleep"
    /\ now < upgrading.wake_at
    /\ now' = now + 1
    /\ UNCHANGED upgrading

\* lines 247-252: the outcome note, and the direct call of remove_container on
\* the old container (healthy) or on the new one
UpgradeDecide ==
    /\ upgrading.pc = "decide"
    /\ LET target == IF upgrading.healthy THEN upgrading.old_id ELSE upgrading.new_id
           ch == channel_name(upgrading.task_id)
           note == IF upgrading.healthy
                   THEN make_sentence_json("New container OK, remove old container", target)
                   ELSE make_sentence_json("New container SO SICK, have to remove", target)
       IN /\ published' = rds_publish(published, ch, note)
          /\ pubsub' = Deliver(pubsub, ch, note)
          /\ removing' = RemoveQueued(NoTask, <<target>>)
          /\ upgrading' = [upgrading EXCEPT !.pc = "remove", !.target = target]
    /\ UNCHANGED <<containers, next_pk, elb, oplog, notified, remote>>

\* remove_container returns, or raises, into upgrade_container, which ends
UpgradeReturn ==
    /\ upgrading.pc = "remove"
    /\ removing.pc \in {"done", "raised"}
    /\ upgrading' = [upgrading EXCEPT
           !.pc = removing.pc,
           !.err = removing.err]

(***************************************************************************)
(* celery_task_stream_response (tasks.py:377-398) over redis-py's PubSub.  *)
(***************************************************************************)
\* the data of a subscribe or unsubscribe confirmation: a number (1L)
LongData == [kind |-> "long", body |-> NoItem]

\* the terminal sentinel of a task: 'CELERY_TASK_DONE:' + task_id
TASK_PUBSUB_EOF(task_id) ==
    [kind |-> "done", body |-> [id |-> task_id, success |-> TRUE, message |-> {}]]

\* a task that publishes its sentinel when it succeeds only
TaskEndsOnSuccess(pc) == pc = "done"

\* "task will publish TASK_PUBSUB_EOF at success or failure": the task has
\* returned, or an exception has ended it
TaskEnds(pc) == pc \in {"done", "raised"}

\* every item taken for a string
IsStringAlways(content) == TRUE

\* isinstance(content, basestring)
IsString(content) == content.kind # "long"

\* no content taken for the sentinel
IsSentinelNever(content) == FALSE

\* content.startswith('CELERY_TASK_DONE')
IsSentinel(content) == content.kind = "done"

\* the part before the colon instead of the part after it
FinishedTaskIdPrefix(content) == "CELERY_TASK_DONE"

\* content[content.find(':') + 1:]
finished_task_id(content) == content.body.id

\* the confirmations redis queues for SUBSCRIBE ch1 ch2 ..., in order
RECURSIVE SubscribeReplies(_)
SubscribeReplies(chs) ==
    IF chs = <<>> THEN <<>>
    ELSE <<[type |-> "subscribe", channel |-> Head(chs), data |-> LongData]>>
         \o SubscribeReplies(Tail(chs))

\* redis' handling of UNSUBSCRIBE ch: the subscription goes, a confirmation is queued
Unsubscribe(ps, ch) ==
    [subs |-> ps.subs \ {ch},
     inbox |-> Append(ps.inbox, [type |-> "unsubscribe", channel |-> ch, data |-> LongData])]

\* lines 378-383: pubsub.subscribe(task_progress_channels)
StreamSubscribe(celery_task_ids) ==
    /\ stream.pc = "idle"
    /\ LET chs == [i \in DOMAIN celery_task_ids |-> channel_name(celery_task_ids[i])]
       IN /\ stream' = [stream EXCEPT !.pc = "listening", !.ids = celery_task_ids,
                                      !.channels = Range(chs),
                                      !.sub_at = Len(published)]
          /\ pubsub' = [subs |-> pubsub.subs \cup Range(chs),
                        inbox |-> pubsub.inbox \o SubscribeReplies(chs)]

\* lines 384-398: one item of pubsub.listen() and the loop body on it.
\* redis-py drops a channel from its own set when the unsubscribe
\* confirmation arrives, and listen() goes on while that set is not empty.
StreamListen ==
    /\ stream.pc = "listening"
    /\ pubsub.inbox # <<>>
    /\ LET item    == Head(pubsub.inbox)
           rest    == [pubsub EXCEPT !.inbox = Tail(@)]
           content == item.data
           chans   == IF item.type = "unsubscribe"
                      THEN stream.channels \ {item.channel}
                      ELSE stream.channels
           pc2     == IF chans = {} THEN "closed" ELSE "listening"
       IN IF ~IsString(content)
          THEN /\ stream' = [stream EXCEPT !.channels = chans, !.pc = pc2]
               /\ pubsub' = rest
          ELSE IF IsSentinel(content)
          THEN /\ stream' = [stream EXCEPT !.channels = chans, !.pc = pc2]
               /\ pubsub' = Unsubscribe(rest, channel_name(finished_task_id(content)))
          ELSE /\ stream' = [stream EXCEPT !.channels = chans, !.pc = pc2,
                                           !.yielded = Append(@, content)]
               /\ pubsub' = rest

(***************************************************************************)
(* TackleTask.__call__ (tasks.py:413-426): the throttle of the strategies. *)
(***************************************************************************)
\* CITADEL_TACKLE_TASK_THROTTLING_KEY.format(id_=smart_status.name, strategy=self.name)
Keys == [id_ : {"c1"}, strategy : {"respawn_container", "send_warning"}]

\* int(parse_timespan(kwargs.get('cooldown', '1m'))), in whole seconds
Cooldowns == 1..MaxCooldown

Workers == 1..MaxWorkers

NoKeys == [k \in Keys |-> 0]

NoKey == [id_ |-> "", strategy |-> ""]

NoWorkers ==
    [w \in Workers |-> [pc |-> "idle", key |-> NoKey, cooldown |-> 0, checked_at |-> 0,
                        armed_at |-> 0, after |-> {}, raced |-> FALSE, failed |-> FALSE]]

\* the key is taken for absent whatever redis holds
KeyNeverInRds(store, key, t) == FALSE

\* "key in rds": the key was set and has not expired
KeyInRds(store, key, t) == store[key] > t

\* rds.set(key, 'true'): the key is set without a ttl and outlives the clock
SetWithoutTtl(store, key, cooldown, t) == [store EXCEPT ![key] = t + cooldown + MaxTime + 1]

\* a setex that is lost
SetNothing(store, key, cooldown, t) == store

\* rds.setex(key, 'true', cooldown)
setex(store, key, cooldown, t) == [store EXCEPT ![key] = t + cooldown]

\* lines 418-423: the key is built and looked up; the invocation is skipped
\* when it is there
TackleCheck(w, key, cooldown) ==
    /\ workers[w].pc = "idle"
    /\ LET between == {v \in Workers \ {w} : workers[v].pc = "checked" /\ workers[v].key = key}
       IN workers' = [v \in Workers |->
              IF v = w
              THEN [pc |-> IF KeyInRds(rds, key, now) THEN "skipped" ELSE "checked",
                    key |-> key, cooldown |-> cooldown, checked_at |-> now, armed_at |-> 0,
                    after |-> {u \in Workers : workers[u].pc = "done" /\ workers[u].key = key},
                    raced |-> between # {}, failed |-> FALSE]
              ELSE IF v \in between THEN [workers[v] EXCEPT !.raced = TRUE]
              ELSE workers[v]]
    /\ UNCHANGED <<rds, now>>

\* lines 424-426: the key is set with its ttl and the strategy body is entered
TackleArm(w) ==
    /\ workers[w].pc = "checked"
    /\ rds' = setex(rds, workers[w].key, workers[w].cooldown, now)
    /\ workers' = [workers EXCEPT ![w].pc = "running", ![w].armed_at = now]
    /\ UNCHANGED now

\* the strategy body returns, or raises: either way the invocation is over
TackleBody(w) ==
    /\ workers[w].pc = "running"
    /\ \E failed \in BOOLEAN :
          workers' = [workers EXCEPT ![w].pc = "done", ![w].failed = failed]
    /\ UNCHANGED <<rds, now>>

\* a second passes; a key is gone once the clock has reached its expiry
Tick ==
    /\ now < MaxTime
    /\ now' = now + 1
    /\ UNCHANGED <<rds, workers>>

(***************************************************************************)
(* respawn_container (tasks.py:429-452): the strategy that replaces a      *)
(* container by a new one of the same release.                             *)
(***************************************************************************)
\* a container taken for not REMOVING whatever its record says
IsRemovingNever(c) == FALSE

\* Container.is_removing
is_removing(c) == c.override_status = REMOVING

\* the '*Container Respawn*' message, sent when the rule's kwargs say notify
RespawnNote(c) ==
    [to |-> "subscribers", about |-> c.container_id, good |-> <<>>,
     bad |-> <<c.container_id>>, tag |-> FALSE]

\* lines 443-450: the container of the status is looked up; the body
\* returns when it is REMOVING, and else sends its note when asked to
RespawnLook(w, notify) ==
    /\ workers[w].pc = "running"
    /\ LET container == get_by_container_id(containers, workers[w].key.id_)
       IN IF container = NoRow
          THEN /\ workers' = [workers EXCEPT ![w].pc = "done", ![w].failed = TRUE]
               /\ UNCHANGED notified
          ELSE IF is_removing(container)
          THEN /\ workers' = [workers EXCEPT ![w].pc = "done"]
               /\ UNCHANGED notified
          ELSE /\ workers' = [workers EXCEPT ![w].pc = "upgrade"]
               /\ notified' = IF notify THEN Append(notified, RespawnNote(container))
                               ELSE notified

\* line 452: upgrade_container(cid, sha, erection_timeout=0), called in the
\* worker, with no task id of its own
RespawnUpgrade(w, built, release_timeout, o) ==
    /\ workers[w].pc = "upgrade"
    /\ UpgradeCall(NoTask, workers[w].key.id_, built, 0, release_timeout, o)
    /\ workers' = [workers EXCEPT ![w].pc = "called"]

\* upgrade_container returns, or raises, into respawn_container, which ends
RespawnReturn(w) ==
    /\ workers[w].pc = "called"
    /\ upgrading.pc \in {"done", "raised"}
    /\ workers' = [workers EXCEPT ![w].pc = "done", ![w].failed = upgrading.pc = "raised"]

(***************************************************************************)
(* tackle_single_app (tasks.py:362-374): the rules of an app are applied   *)
(* to the status of each of its containers.                                *)
(***************************************************************************)
\* the situation expressions the rules are written with
Situations == {"s1", "s2"}

\* a rule of app.tackle_rule['container_tackle_rule']: a dict with the keys
\* 'strategy' and 'situations', with or without the key 'kwargs'
TackleRules ==
    [strategy : {"respawn_container", "send_warning"},
     situations : {<<"s1">>, <<"s1", "s2">>}]
    \cup [strategy : {"respawn_container", "send_warning"},
          situations : {<<"s1">>, <<"s1", "s2">>},
          kwargs : {{<<"cooldown", MaxCooldown>>}}]

RuleLists == UNION {[1..n -> TackleRules] : n \in 0..MaxRules}

\* app_status_assembler.container_status: the status of each container of the
\* app, here its name and the situations that hold for it
StatusLists ==
    {<<[name |-> "c1", holds |-> a], [name |-> "c2", holds |-> b]>> :
        a \in SUBSET Situations, b \in SUBSET Situations}

\* c.eval_expressions(situations): the situations that hold for c
eval_expressions(c, situations) == SelectSeq(situations, LAMBDA e : e \in c.holds)

\* a rule read without its kwargs
NoKwargs(rule) == {}

\* rule.get('kwargs', {})
RuleKwargs(rule) == IF "kwargs" \in DOMAIN rule THEN rule.kwargs ELSE {}

\* the cooldown of '1m', the default of kwargs.get('cooldown', '1m')
DefaultCooldown == 60

\* int(parse_timespan(kwargs.get('cooldown', '1m')))
CooldownOf(kwargs) ==
    IF \E kv \in kwargs : kv[1] = "cooldown"
    THEN (CHOOSE kv \in kwargs : kv[1] = "cooldown")[2]
    ELSE DefaultCooldown

\* the throttling keys of the containers of the app, none of them set
RuleKeys ==
    [k \in [id_ : {"c1", "c2"}, strategy : {"respawn_container", "send_warning"}] |-> 0]

TackleIdle == [pc |-> "idle", rules |-> <<>>, status |-> <<>>, i |-> 0, j |-> 0, calls |-> <<>>]

\* lines 368-374 for the rule and the container the loops stand at: the
\* situations are evaluated and, if one holds, method(c, dangers, **kwargs)
\* is called, which is TackleTask.__call__ of lines 416-426 and then the
\* strategy body, which returns or raises; what raises ends the task
TacklePair ==
    /\ tackling.pc = "loop"
    /\ tackling.i <= Len(tackling.rules)
    /\ LET rule == tackling.rules[tackling.i]
           c == tackling.status[tackling.j]
           dangers == eval_expressions(c, rule.situations)
           kwargs == RuleKwargs(rule)
           key == [id_ |-> c.name, strategy |-> rule.strategy]
           last == tackling.j = Len(tackling.status)
           on == [tackling EXCEPT !.i = IF last THEN @ + 1 ELSE @,
                                  !.j = IF last THEN 1 ELSE @ + 1]
           call == [rule |-> tackling.i, c |-> c.name, strategy |-> rule.strategy,
                    dangers |-> dangers, kwargs |-> kwargs, body |-> "skipped"]
       IN IF dangers = <<>>
          THEN tackling' = on /\ UNCHANGED rds
          ELSE IF KeyInRds(rds, key, now)
          THEN /\ tackling' = [on EXCEPT !.calls = Append(@, call)]
               /\ UNCHANGED rds
          ELSE /\ rds' = setex(rds, key, CooldownOf(kwargs), now)
               /\ \/ tackling' = [on EXCEPT !.calls = Append(@, [call EXCEPT !.body = "returned"])]
                  \/ tackling' = [tackling EXCEPT !.pc = "raised",
                          !.calls = Append(@, [call EXCEPT !.body = "raised"])]
    /\ UNCHANGED <<workers, now>>

\* line 368: the rules are exhausted
TackleEnd ==
    /\ tackling.pc = "loop"
    /\ tackling.i > Len(tackling.rules)
    /\ tackling' = [tackling EXCEPT !.pc = "done"]
    /\ UNCHANGED <<rds, workers, now>>

(***************************************************************************)
(* deal_with_agent_etcd_change (tasks.py:266-316): the worker's handler of *)
(* a health event of the agent.                                            *)
(***************************************************************************)
\* data.get(...) of a key the event lacks
None == "None"

\* the containers the events are about: a registered one and an unknown one
AgentIds == {"c1", "x9"}

\* the events: ID, Healthy, Alive and Name, each present or not
Events ==
    [ID : AgentIds \cup {None}, Healthy : {"true", "false", None},
     Alive : {"true", "false", None}, Name : {"app", None}]

AgentIdle ==
    [pc |-> "idle", container |-> NoRow, healthy |-> FALSE, alive |-> FALSE,
     err |-> NoErr, events |-> 0]

\* the dead-container text sent whatever the exit code and the status are
DeadNoteAlways(c, dead) ==
    [to |-> "subscribers", about |-> c.container_id, good |-> <<>>,
     bad |-> <<c.container_id>>, tag |-> FALSE]

\* the message of line 299; msg is '' unless the dead-container text was built
DeadNote(c, dead) ==
    [to |-> "subscribers", about |-> c.container_id, good |-> <<>>,
     bad |-> IF dead THEN <<c.container_id>> ELSE <<>>, tag |-> FALSE]

\* a task that takes up every event of a registered container, whatever
\* fields the event lacks
AgentLoadAny(data) ==
    /\ agent.pc \in {"idle", "done", "raised"}
    /\ agent.events < MaxEvents
    /\ LET container == get_by_container_id(containers, data.ID)
       IN agent' = IF container = NoRow
                    THEN [AgentIdle EXCEPT !.pc = "done", !.events = agent.events + 1]
                    ELSE [pc |-> "loaded", container |-> container,
                          healthy |-> data.Healthy = "true",
                          alive |-> data.Alive = "true", err |-> NoErr,
                          events |-> agent.events + 1]
    /\ UNCHANGED <<containers, next_pk, elb, published, oplog, notified, remote,
                   removing, pubsub>>

\* lines 267-276: the fields of the event and the lookup of the container
AgentLoad(data) ==
    /\ agent.pc \in {"idle", "done", "raised"}
    /\ agent.events < MaxEvents
    /\ LET container == get_by_container_id(containers, data.ID)
       IN agent' = IF None \in {data.ID, data.Healthy, data.Alive, data.Name}
                       \/ container = NoRow
                    THEN [AgentIdle EXCEPT !.pc = "done", !.events = agent.events + 1]
                    ELSE [pc |-> "loaded", container |-> container,
                          healthy |-> data.Healthy = "true",
                          alive |-> data.Alive = "true", err |-> NoErr,
                          events |-> agent.events + 1]
    /\ UNCHANGED <<containers, next_pk, elb, published, oplog, notified, remote,
                   removing, pubsub>>

\* lines 278-316 for the container that was looked up; exit0 is "exitcode == 0"
\* of the container's info, and crons holds the ids of the containers whose
\* entrypoint is one of their app's cron entrypoints (container.is_cronjob())
AgentHandle(crons, exit0) ==
    /\ agent.pc = "loaded"
    /\ LET c == agent.container
       IN IF ~agent.alive
          THEN /\ elb' = update_elb_remove(elb, <<c>>)
               /\ IF exit0 /\ c.container_id \in crons
                    THEN /\ removing.pc = "idle"
                         /\ removing' = RemoveQueued(NoTask, <<c.container_id>>)
                         /\ agent' = [agent EXCEPT !.pc = "call"]
                         /\ UNCHANGED notified
                    ELSE /\ notified' = Append(notified,
                                DeadNote(c, c.override_status # REMOVING /\ ~exit0))
                         /\ agent' = [agent EXCEPT !.pc = "done"]
                         /\ UNCHANGED removing
               /\ UNCHANGED containers
          ELSE IF agent.healthy
          THEN IF StaleData(containers, c)
               THEN /\ agent' = [agent EXCEPT !.pc = "raised",
                                              !.err = Err("StaleDataError", 0)]
                    /\ UNCHANGED <<containers, elb, notified, removing>>
               ELSE /\ containers' = mark_initialized(containers, c)
                    /\ elb' = update_elb_add(elb, c)
                    /\ agent' = [agent EXCEPT !.pc = "done"]
                    /\ UNCHANGED <<notified, removing>>
          ELSE /\ elb' = update_elb_remove(elb, <<c>>)
               /\ IF c.initialized = 1 /\ c.override_status # REMOVING
                  THEN /\ agent' = [agent EXCEPT !.pc = "done"]
                       /\ UNCHANGED containers
                  ELSE IF StaleData(containers, c)
                  THEN /\ agent' = [agent EXCEPT !.pc = "raised",
                                                 !.err = Err("StaleDataError", 0)]
                       /\ UNCHANGED containers
                  ELSE /\ containers' = mark_initialized(containers, c)
                       /\ agent' = [agent EXCEPT !.pc = "done"]
               /\ UNCHANGED <<notified, removing>>
    /\ UNCHANGED <<next_pk, published, oplog, remote, pubsub>>

\* lines 288-299: remove_container(container_id) has returned or raised; what
\* it raised goes through, and after its return the message is sent (the exit
\* code was 0, so msg is '')
AgentReturn ==
    /\ agent.pc = "call"
    /\ removing.pc \in {"done", "raised"}
    /\ IF removing.pc = "raised"
       THEN /\ agent' = [agent EXCEPT !.pc = "raised", !.err = removing.err]
            /\ UNCHANGED notified
       ELSE /\ agent' = [agent EXCEPT !.pc = "done"]
            /\ notified' = Append(notified, DeadNote(agent.container, FALSE))
    /\ UNCHANGED <<containers, next_pk, elb, published, oplog, remote, removing, pubsub>>

(***************************************************************************)
(* The probe on its own: _peek_grpc applied to a remote call, and the      *)
(* caller's "for m in ms" over what it returns.                            *)
(***************************************************************************)
\* the elements of the streams _peek_grpc is applied to: the create results of
\* tasks.py:108 and the removal results of tasks.py:194
ProbeMsgs == CreateMsgs \cup RemoveMsgs({"c1"})

ProbeInit ==
    /\ probe = [pc |-> "call", ms |-> peekable(NoCall), got |-> <<>>, code |-> 0]
    /\ containers = <<>> /\ next_pk = 1 /\ elb = {}
    /\ published = <<>> /\ oplog = <<>> /\ notified = <<>> /\ remote = <<>>
    /\ creating = CreateIdle /\ removing = RemoveIdle /\ entry = "none"
    /\ pubsub = NoPubSub /\ stream = StreamIdle /\ ended = {}
    /\ now = 0 /\ rds = NoKeys /\ workers = NoWorkers /\ tackling = TackleIdle
    /\ upgrading = UpgradeIdle /\ watch = {} /\ agent = AgentIdle /\ request = NoRequest

\* ms = _peek_grpc(call)
ProbePeek ==
    /\ probe.pc = "call"
    /\ \E o \in Outcomes(ProbeMsgs, NoCall) :
        LET r == _peek_grpc(NoCall, o)
        IN probe' = [probe EXCEPT
               !.pc = IF r.kind = "return" THEN "iterate" ELSE r.kind,
               !.ms = r.ms,
               !.code = r.code]
    /\ UNCHANGED <<world, creating, removing, entry, reader, now, tackle, upgrade, agent, request>>

\* one turn of "for m in ms"
ProbeIterate ==
    /\ probe.pc = "iterate"
    /\ \E o \in Outcomes(ProbeMsgs, probe.ms.it) :
        LET r == PeekableNext(probe.ms, o)
        IN probe' = [probe EXCEPT
               !.pc = IF r.kind = "item" THEN "iterate"
                      ELSE IF r.kind = "StopIteration" THEN "exhausted"
                      ELSE r.kind,
               !.ms = r.ms,
               !.got = IF r.kind = "item" THEN Append(@, r.val) ELSE @]
    /\ UNCHANGED <<world, creating, removing, entry, reader, now, tackle, upgrade, agent, request>>

ProbeNext == ProbePeek \/ ProbeIterate

SpecProbe == ProbeInit /\ [][ProbeNext]_vars

(***************************************************************************)
(* A deploy on its own: api/v1/action.py deploy and views/ajax.py          *)
(* deploy_release dispatch create_container to a worker.                   *)
(***************************************************************************)
DeployInit ==
    /\ probe = ProbeIdle
    /\ containers = <<>> /\ next_pk = 1 /\ elb = {}
    /\ published = <<>> /\ oplog = <<>> /\ notified = <<>> /\ remote = <<>>
    /\ creating = CreateIdle /\ removing = RemoveIdle /\ entry = "none"
    /\ pubsub = NoPubSub /\ stream = StreamIdle /\ ended = {}
    /\ now = 0 /\ rds = NoKeys /\ workers = NoWorkers /\ tackling = TackleIdle
    /\ upgrading = UpgradeIdle /\ watch = {} /\ agent = AgentIdle /\ request = NoRequest

deploy ==
    /\ entry = "none"
    /\ \E zone \in Zones, debug \in BOOLEAN, task_id \in TaskIds,
          o \in Outcomes(CreateMsgs, NoCall) :
           CreateCall(task_id, zone, debug, o)
    /\ entry' = "deploy"
    /\ UNCHANGED <<probe, agent, request, removing, stream, ended, now, tackle, upgrade>>

DeployLoop == CreateLoop /\ UNCHANGED <<probe, agent, request, removing, entry, stream, ended, now, tackle, upgrade>>

DeployNotify == CreateNotify /\ UNCHANGED <<probe, agent, request, removing, entry, stream, ended, now, tackle, upgrade>>

DeployNext == deploy \/ DeployLoop \/ DeployNotify

SpecDeploy == DeployInit /\ [][DeployNext]_vars

(***************************************************************************)
(* A deploy as a task of the worker: the task ends, by return or by        *)
(* exception, and its sentinel is published; the worker runs what it has   *)
(* started to the end.                                                     *)
(***************************************************************************)
DeployEnd ==
    /\ TaskEnds(creating.pc)
    /\ creating.task_id \notin ended
    /\ ended' = ended \cup {creating.task_id}
    /\ published' = rds_publish(published, channel_name(creating.task_id),
                                TASK_PUBSUB_EOF(creating.task_id))
    /\ pubsub' = Deliver(pubsub, channel_name(creating.task_id),
                         TASK_PUBSUB_EOF(creating.task_id))
    /\ UNCHANGED <<probe, agent, request, containers, next_pk, elb, oplog, notified, remote,
                   creating, removing, entry, stream, now, tackle, upgrade>>

DeployTaskNext == deploy \/ DeployLoop \/ DeployNotify \/ DeployEnd

SpecDeployTask == DeployInit /\ [][DeployTaskNext]_vars /\ WF_vars(DeployTaskNext)

(***************************************************************************)
(* The progress channel on its own: tasks that publish progress messages   *)
(* and end with their sentinel, and one HTTP response reading the stream.  *)
(***************************************************************************)
\* the progress messages a task publishes: a successful and a failed result
ProgressMsgs == [id : {"n1"}, success : BOOLEAN, message : {{}}]

StreamInit ==
    /\ probe = ProbeIdle
    /\ containers = <<>> /\ next_pk = 1 /\ elb = {}
    /\ published = <<>> /\ oplog = <<>> /\ notified = <<>> /\ remote = <<>>
    /\ creating = CreateIdle /\ removing = RemoveIdle /\ entry = "none"
    /\ pubsub = NoPubSub /\ stream = StreamIdle /\ ended = {}
    /\ now = 0 /\ rds = NoKeys /\ workers = NoWorkers /\ tackling = TackleIdle
    /\ upgrading = UpgradeIdle /\ watch = {} /\ agent = AgentIdle /\ request = NoRequest

\* the response generator starts: the request process subscribes
StreamOpen ==
    /\ \E ids \in {<<"t1">>, <<"t2">>, <<"t1", "t2">>} : StreamSubscribe(ids)
    /\ UNCHANGED <<probe, agent, request, world, creating, removing, entry, ended, now, tackle, upgrade>>

StreamRead ==
    /\ StreamListen
    /\ UNCHANGED <<probe, agent, request, world, creating, removing, entry, ended, now, tackle, upgrade>>

\* a running task publishes one progress message on its own channel
TaskPublish ==
    /\ Len(published) < MaxPublish
    /\ \E t \in TaskIds \ ended, m \in ProgressMsgs :
          /\ published' = rds_publish(published, channel_name(t), json_dumps(m))
          /\ pubsub' = Deliver(pubsub, channel_name(t), json_dumps(m))
    /\ UNCHANGED <<probe, agent, request, containers, next_pk, elb, oplog, notified, remote,
                   creating, removing, entry, stream, ended, now, tackle, upgrade>>

\* a task ends, with success or failure, and its sentinel is published
TaskDone ==
    /\ \E t \in TaskIds \ ended :
          /\ ended' = ended \cup {t}
          /\ published' = rds_publish(published, channel_name(t), TASK_PUBSUB_EOF(t))
          /\ pubsub' = Deliver(pubsub, channel_name(t), TASK_PUBSUB_EOF(t))
    /\ UNCHANGED <<probe, agent, request, containers, next_pk, elb, oplog, notified, remote,
                   creating, removing, entry, stream, now, tackle, upgrade>>

StreamNext == StreamOpen \/ StreamRead \/ TaskPublish \/ TaskDone

SpecStream == StreamInit /\ [][StreamNext]_vars

(***************************************************************************)
(* The throttle on its own: workers that run TackleTask.__call__ for the   *)
(* rules of tackle_single_app, concurrently and one after the other.       *)
(***************************************************************************)
TackleInit ==
    /\ probe = ProbeIdle
    /\ containers = <<>> /\ next_pk = 1 /\ elb = {}
    /\ published = <<>> /\ oplog = <<>> /\ notified = <<>> /\ remote = <<>>
    /\ creating = CreateIdle /\ removing = RemoveIdle /\ entry = "none"
    /\ pubsub = NoPubSub /\ stream = StreamIdle /\ ended = {}
    /\ now = 0 /\ rds = NoKeys /\ workers = NoWorkers /\ tackling = TackleIdle
    /\ upgrading = UpgradeIdle /\ watch = {} /\ agent = AgentIdle /\ request = NoRequest

\* the invocations are numbered in the order they start
TackleCall ==
    /\ \E w \in Workers, key \in Keys, cooldown \in Cooldowns :
          /\ \A v \in Workers : v < w => workers[v].pc # "idle"
          /\ TackleCheck(w, key, cooldown)
    /\ UNCHANGED <<probe, agent, request, tackling, world, creating, removing, entry, reader, upgrade>>

TackleSet ==
    /\ \E w \in Workers : TackleArm(w)
    /\ UNCHANGED <<probe, agent, request, tackling, world, creating, removing, entry, reader, upgrade>>

TackleRun ==
    /\ \E w \in Workers : TackleBody(w)
    /\ UNCHANGED <<probe, agent, request, tackling, world, creating, removing, entry, reader, upgrade>>

\* the clock is followed from the first invocation to the return of the last
TackleTick ==
    /\ \E w \in Workers : workers[w].pc # "idle"
    /\ \E w \in Workers : workers[w].pc \notin {"done", "skipped"}
    /\ Tick
    /\ UNCHANGED <<probe, agent, request, tackling, world, creating, removing, entry, reader, upgrade>>

TackleNext == TackleCall \/ TackleSet \/ TackleRun \/ TackleTick

SpecTackle == TackleInit /\ [][TackleNext]_vars

(***************************************************************************)
(* Removals: api/v1/action.py remove and views/ajax.py remove_containers   *)
(* dispatch remove_container to a worker, over a table that holds          *)
(* containers of two zones and a container of the load balancer's app.     *)
(***************************************************************************)
Row(pk, container_id, appname, zone) ==
    [pk |-> pk, container_id |-> container_id, appname |-> appname, zone |-> zone,
     override_status |-> NONE, initialized |-> 1, healthy |-> TRUE]

RemoveRows ==
    <<Row(1, "c1", "app", "z1"), Row(2, "c2", "app", "z2"),
      Row(3, "c3", "app", "z1"), Row(4, "e1", ELB_APP_NAME, "z1")>>

\* the ids a request names: registered ones and one that is not
RequestIds == {"c1", "c2", "c3", "e1", "x9"}

Requests == {<<a>> : a \in RequestIds} \cup {<<a, b>> : a, b \in RequestIds}

RemoveInit ==
    /\ probe = ProbeIdle
    /\ containers = RemoveRows /\ next_pk = Len(RemoveRows) + 1 /\ elb = {"c1", "c2", "c3"}
    /\ published = <<>> /\ oplog = <<>> /\ notified = <<>> /\ remote = <<>>
    /\ creating = CreateIdle /\ removing = RemoveIdle /\ entry = "none"
    /\ pubsub = NoPubSub /\ stream = StreamIdle /\ ended = {}
    /\ now = 0 /\ rds = NoKeys /\ workers = NoWorkers /\ tackling = TackleIdle
    /\ upgrading = UpgradeIdle /\ watch = {} /\ agent = AgentIdle /\ request = NoRequest

\* action.py:87-92
remove ==
    /\ entry = "none"
    /\ \E ids \in Requests, task_id \in TaskIds :
          removing' = RemoveQueued(task_id, ids)
    /\ entry' = "remove"
    /\ UNCHANGED <<probe, agent, request, world, creating, reader, now, tackle, upgrade>>

\* ajax.py:164-170: the handler's loop over the containers it looked up, up
\* to its end or to the return for a load-balancer container
RECURSIVE ShouldRemove(_, _, _)
ShouldRemove(acc, cs, i) ==
    IF i > Len(cs) THEN acc
    ELSE IF cs[i] = NoRow THEN ShouldRemove(acc, cs, i + 1)
    ELSE IF cs[i].appname = ELB_APP_NAME THEN [acc EXCEPT !.status = 400]
    ELSE ShouldRemove([rows |-> mark_removing(acc.rows, cs[i]),
                       should_remove |-> Append(acc.should_remove, cs[i].container_id),
                       status |-> acc.status], cs, i + 1)

\* ajax.py:151-173
remove_containers ==
    /\ entry = "none"
    /\ \E container_ids \in Requests, task_id \in TaskIds :
        LET cs == [i \in 1..Len(container_ids) |->
                      get_by_container_id(containers, container_ids[i])]
            r == ShouldRemove([rows |-> containers, should_remove |-> <<>>,
                               status |-> 200], cs, 1)
        IN /\ containers' = r.rows
           /\ IF r.status = 400
              THEN /\ entry' = "remove_containers: 400"
                   /\ UNCHANGED removing
              ELSE /\ entry' = "remove_containers"
                   /\ removing' = RemoveQueued(task_id, r.should_remove)
    /\ UNCHANGED <<probe, agent, request, next_pk, elb, published, oplog, notified, remote, creating,
                   reader, now, tackle, upgrade>>

RemoveTaskCall ==
    RemoveCall /\ UNCHANGED <<probe, agent, request, creating, entry, stream, ended, now, tackle, upgrade>>

RemoveTaskMark ==
    RemoveMark /\ UNCHANGED <<probe, agent, request, creating, entry, stream, ended, now, tackle, upgrade>>

RemoveTaskDetach ==
    RemoveDetach /\ UNCHANGED <<probe, agent, request, creating, entry, stream, ended, now, tackle, upgrade>>

RemoveTaskProbe ==
    RemoveProbe /\ UNCHANGED <<probe, agent, request, creating, entry, stream, ended, now, tackle, upgrade>>

RemoveTaskLoop ==
    RemoveLoop /\ UNCHANGED <<probe, agent, request, creating, entry, stream, ended, now, tackle, upgrade>>

RemoveNext ==
    \/ remove \/ remove_containers
    \/ RemoveTaskCall \/ RemoveTaskMark \/ RemoveTaskDetach \/ RemoveTaskProbe
    \/ RemoveTaskLoop

SpecRemove == RemoveInit /\ [][RemoveNext]_vars

(***************************************************************************)
(* An upgrade of a registered container while the watch service writes the *)
(* health of the containers into the store.                                *)
(***************************************************************************)
UpgradeRows == <<Row(1, "c1", "app", "z1")>>

UpgradeInit ==
    /\ probe = ProbeIdle
    /\ containers = UpgradeRows /\ next_pk = Len(UpgradeRows) + 1 /\ elb = {"c1"}
    /\ published = <<>> /\ oplog = <<>> /\ notified = <<>> /\ remote = <<>>
    /\ creating = CreateIdle /\ removing = RemoveIdle /\ entry = "none"
    /\ pubsub = NoPubSub /\ stream = StreamIdle /\ ended = {}
    /\ now = 0 /\ rds = NoKeys /\ workers = NoWorkers /\ tackling = TackleIdle
    /\ upgrading = UpgradeIdle /\ watch = {} /\ agent = AgentIdle /\ request = NoRequest

\* upgrade_container is dispatched, or called by respawn_container
UpgradeStart ==
    /\ entry = "none"
    /\ \E old_container_id \in {"c1", "x9"}, built \in BOOLEAN,
          erection_timeout \in Timeouts, release_timeout \in Timeouts,
          o \in Outcomes(CreateMsgs, NoCall) :
           UpgradeCall("t1", old_container_id, built, erection_timeout, release_timeout, o)
    /\ entry' = "upgrade"
    /\ UNCHANGED <<probe, agent, request, removing, stream, ended, now, tackle, watch>>

UpgradeCreateLoop ==
    /\ upgrading.pc = "create"
    /\ CreateLoop
    /\ UNCHANGED <<probe, agent, request, removing, entry, stream, ended, now, tackle, upgrade>>

UpgradeCreateNotify ==
    /\ upgrading.pc = "create"
    /\ CreateNotify
    /\ UNCHANGED <<probe, agent, request, removing, entry, stream, ended, now, tackle, upgrade>>

UpgradeWait ==
    /\ UpgradeCreated
    /\ UNCHANGED <<probe, agent, request, creating, removing, entry, stream, ended, now, tackle, watch>>

UpgradePoll ==
    /\ WaitCheck
    /\ UNCHANGED <<probe, agent, request, world, creating, removing, entry, reader, tackle, watch>>

UpgradeRefresh ==
    /\ WaitRefresh
    /\ UNCHANGED <<probe, agent, request, world, creating, removing, entry, reader, tackle, watch>>

UpgradeSleep ==
    /\ WaitElapse
    /\ UNCHANGED <<probe, agent, request, world, creating, removing, entry, reader, tackle, watch>>

UpgradeOutcome ==
    /\ UpgradeDecide
    /\ UNCHANGED <<probe, agent, request, creating, entry, stream, ended, now, tackle, watch>>

UpgradeRemoveCall ==
    RemoveCall /\ UNCHANGED <<probe, agent, request, creating, entry, stream, ended, now, tackle, upgrade>>

UpgradeRemoveMark ==
    RemoveMark /\ UNCHANGED <<probe, agent, request, creating, entry, stream, ended, now, tackle, upgrade>>

UpgradeRemoveDetach ==
    RemoveDetach /\ UNCHANGED <<probe, agent, request, creating, entry, stream, ended, now, tackle, upgrade>>

UpgradeRemoveProbe ==
    RemoveProbe /\ UNCHANGED <<probe, agent, request, creating, entry, stream, ended, now, tackle, upgrade>>

UpgradeRemoveLoop ==
    RemoveLoop /\ UNCHANGED <<probe, agent, request, creating, entry, stream, ended, now, tackle, upgrade>>

UpgradeEnd ==
    /\ UpgradeReturn
    /\ UNCHANGED <<probe, agent, request, world, creating, removing, entry, reader, now, tackle, watch>>

\* the watch service writes Healthy into the deploy_info of a container that
\* is not healthy yet: the replacement, or another container of the same deploy
WatchHealthy ==
    /\ upgrading.pc \in {"create", "wait", "sleep"}
    /\ \E i \in 1..Len(containers) :
          /\ ~containers[i].healthy
          /\ containers' = update_deploy_info(containers, containers[i].pk)
          /\ watch' = watch \cup {[pk |-> containers[i].pk, at |-> now]}
    /\ UNCHANGED <<probe, agent, request, next_pk, elb, published, oplog, notified, remote, creating,
                   removing, entry, reader, now, tackle, upgrading>>

UpgradeNext ==
    \/ UpgradeStart \/ UpgradeCreateLoop \/ UpgradeCreateNotify \/ UpgradeWait
    \/ UpgradePoll \/ UpgradeRefresh \/ UpgradeSleep \/ UpgradeOutcome
    \/ UpgradeRemoveCall \/ UpgradeRemoveMark \/ UpgradeRemoveDetach
    \/ UpgradeRemoveProbe \/ UpgradeRemoveLoop \/ UpgradeEnd \/ WatchHealthy

SpecUpgrade == UpgradeInit /\ [][UpgradeNext]_vars

(***************************************************************************)
(* An upgrade of a container while the user removes the same container by  *)
(* hand (views/ajax.py remove_containers) during the wait for the          *)
(* replacement. The removal requested by hand is over before the upgrade   *)
(* calls remove_container itself, and each remote stream carries at most   *)
(* one message: one replacement is created, one container removed.         *)
(***************************************************************************)
\* upgrade_container for the registered container and a built release
RaceStart ==
    /\ entry = "none"
    /\ \E erection_timeout \in Timeouts, o \in Outcomes(CreateMsgs, NoCall) :
           UpgradeCall("t1", "c1", TRUE, erection_timeout, 0, o)
    /\ entry' = "upgrade"
    /\ UNCHANGED <<probe, agent, request, removing, stream, ended, now, tackle, watch>>

RaceCreateLoop ==
    UpgradeCreateLoop /\ Len(creating'.res) <= 1

\* ajax.py:151-173 for the container under upgrade, before the upgrade has
\* decided
RaceRemove ==
    /\ entry = "upgrade"
    /\ upgrading.pc \in {"wait", "sleep"}
    /\ removing.pc = "idle"
    /\ LET r == ShouldRemove([rows |-> containers, should_remove |-> <<>>, status |-> 200],
                             <<get_by_container_id(containers, "c1")>>, 1)
       IN /\ containers' = r.rows
          /\ removing' = RemoveQueued("t2", r.should_remove)
    /\ entry' = "upgrade, remove_containers"
    /\ UNCHANGED <<probe, agent, request, next_pk, elb, published, oplog, notified, remote,
                   creating, reader, now, tackle, upgrade>>

RaceOutcome ==
    /\ removing.pc \in {"idle", "done", "raised"}
    /\ UpgradeDecide
    /\ UNCHANGED <<probe, agent, request, creating, entry, stream, ended, now, tackle, watch>>

RaceRemoveLoop ==
    UpgradeRemoveLoop /\ Len(removing'.res) <= 1

RaceNext ==
    \/ RaceStart \/ RaceCreateLoop \/ UpgradeCreateNotify \/ UpgradeWait
    \/ UpgradePoll \/ UpgradeRefresh \/ UpgradeSleep \/ RaceRemove \/ RaceOutcome
    \/ UpgradeRemoveCall \/ UpgradeRemoveMark \/ UpgradeRemoveDetach
    \/ UpgradeRemoveProbe \/ RaceRemoveLoop \/ UpgradeEnd \/ WatchHealthy

SpecRace == UpgradeInit /\ [][RaceNext]_vars

(***************************************************************************)
(* A respawn: one invocation of respawn_container for the container c1,    *)
(* which a removal may have marked REMOVING before, through the throttle   *)
(* and, when the body gets that far, through the upgrade.                  *)
(***************************************************************************)
RespawnKey == [id_ |-> "c1", strategy |-> "respawn_container"]

RespawnInit ==
    /\ probe = ProbeIdle
    /\ containers \in {UpgradeRows, <<[UpgradeRows[1] EXCEPT !.override_status = REMOVING]>>}
    /\ next_pk = Len(UpgradeRows) + 1 /\ elb = {"c1"}
    /\ published = <<>> /\ oplog = <<>> /\ notified = <<>> /\ remote = <<>>
    /\ creating = CreateIdle /\ removing = RemoveIdle /\ entry = "none"
    /\ pubsub = NoPubSub /\ stream = StreamIdle /\ ended = {}
    /\ now = 0 /\ rds = NoKeys /\ workers = NoWorkers /\ tackling = TackleIdle
    /\ upgrading = UpgradeIdle /\ watch = {} /\ agent = AgentIdle /\ request = NoRequest

RespawnCall ==
    /\ \E cooldown \in Cooldowns : TackleCheck(1, RespawnKey, cooldown)
    /\ UNCHANGED <<probe, agent, request, tackling, world, creating, removing, entry, reader, upgrade>>

RespawnSet ==
    /\ TackleArm(1)
    /\ UNCHANGED <<probe, agent, request, tackling, world, creating, removing, entry, reader, upgrade>>

RespawnBody ==
    /\ \E notify \in BOOLEAN : RespawnLook(1, notify)
    /\ UNCHANGED <<probe, agent, request, tackling, containers, next_pk, elb, published, oplog,
                   remote, creating, removing, entry, reader, now, rds, upgrade>>

RespawnStart ==
    /\ \E built \in BOOLEAN, release_timeout \in Timeouts, o \in Outcomes(CreateMsgs, NoCall) :
           RespawnUpgrade(1, built, release_timeout, o)
    /\ UNCHANGED <<probe, agent, request, tackling, removing, entry, stream, ended, now, rds, watch>>

RespawnEnd ==
    /\ RespawnReturn(1)
    /\ UNCHANGED <<probe, agent, request, tackling, world, creating, removing, entry, reader,
                   now, rds, upgrade>>

RespawnNext ==
    \/ RespawnCall \/ RespawnSet \/ RespawnBody \/ RespawnStart
    \/ RaceCreateLoop \/ UpgradeCreateNotify \/ UpgradeWait
    \/ UpgradePoll \/ UpgradeRefresh \/ UpgradeSleep \/ UpgradeOutcome
    \/ UpgradeRemoveCall \/ UpgradeRemoveMark \/ UpgradeRemoveDetach
    \/ UpgradeRemoveProbe \/ RaceRemoveLoop \/ UpgradeEnd \/ WatchHealthy \/ RespawnEnd

SpecRespawn == RespawnInit /\ [][RespawnNext]_vars

(***************************************************************************)
(* The deadline of an upgrade: upgrade_container up to its decision, with  *)
(* the timeouts of the call on record.                                     *)
(***************************************************************************)
\* upgrade_container(old, sha, erection_timeout=...) for a registered
\* container and a built release; respawn_container calls it with 0
ErectStart ==
    /\ entry = "none"
    /\ \E erection_timeout \in Timeouts, release_timeout \in Timeouts,
          o \in Outcomes(CreateMsgs, NoCall) :
           /\ UpgradeCall("t1", "c1", TRUE, erection_timeout, release_timeout, o)
           /\ request' = [erection_timeout |-> erection_timeout,
                          release_timeout |-> release_timeout, at |-> now]
    /\ entry' = "upgrade"
    /\ UNCHANGED <<probe, agent, removing, stream, ended, now, tackle, watch>>

ErectNext ==
    \/ ErectStart \/ UpgradeCreateLoop \/ UpgradeCreateNotify \/ UpgradeWait
    \/ UpgradePoll \/ UpgradeRefresh \/ UpgradeSleep \/ UpgradeOutcome
    \/ WatchHealthy

SpecErect == UpgradeInit /\ [][ErectNext]_vars

(***************************************************************************)
(* The status columns of the registry under all their writers: a deploy or *)
(* a removal, Container.mark_debug, and the health events of the agent for *)
(* a registered container.                                                 *)
(***************************************************************************)
\* one registered container that no health event has been handled for yet
StatusRows ==
    <<[Row(1, "c1", "app", "z1") EXCEPT !.initialized = 0, !.healthy = FALSE]>>

StatusInit ==
    /\ probe = ProbeIdle
    /\ containers = StatusRows /\ next_pk = Len(StatusRows) + 1 /\ elb = {}
    /\ published = <<>> /\ oplog = <<>> /\ notified = <<>> /\ remote = <<>>
    /\ creating = CreateIdle /\ removing = RemoveIdle /\ entry = "none"
    /\ pubsub = NoPubSub /\ stream = StreamIdle /\ ended = {}
    /\ now = 0 /\ rds = NoKeys /\ workers = NoWorkers /\ tackling = TackleIdle
    /\ upgrading = UpgradeIdle /\ watch = {} /\ agent = AgentIdle /\ request = NoRequest

\* models/container.py:147-153, for a container that was just looked up
MarkDebug ==
    /\ \E id \in AgentIds :
        LET c == get_by_container_id(containers, id)
        IN /\ c # NoRow
           /\ c.override_status # DEBUG
           /\ containers' = mark_debug(containers, c)
    /\ UNCHANGED <<probe, agent, request, next_pk, elb, published, oplog, notified, remote,
                   creating, removing, entry, reader, now, tackle, upgrade>>

\* api/v1/action.py:41-84: a deploy into the registered container's zone
StatusDeploy ==
    /\ entry = "none"
    /\ \E debug \in BOOLEAN, o \in Outcomes(CreateMsgs, NoCall) :
           CreateCall("t1", "z1", debug, o)
    /\ entry' = "deploy"
    /\ UNCHANGED <<probe, agent, request, removing, stream, ended, now, tackle, upgrade>>

\* api/v1/action.py:87-92: the removal of the registered container
StatusRemove ==
    /\ entry = "none"
    /\ removing.pc = "idle"
    /\ removing' = RemoveQueued("t2", <<"c1">>)
    /\ entry' = "remove"
    /\ UNCHANGED <<probe, agent, request, world, creating, reader, now, tackle, upgrade>>

AgentTaskLoad ==
    (\E data \in Events : AgentLoad(data)) /\ UNCHANGED <<probe, request, creating, entry, stream, ended, now, tackle, upgrade>>

\* the registered container runs a service, not a cron job
AgentTaskHandle ==
    (\E exit0 \in BOOLEAN : AgentHandle({}, exit0)) /\ UNCHANGED <<probe, request, creating, entry, stream, ended, now, tackle, upgrade>>

StatusNext ==
    \/ StatusDeploy \/ DeployLoop \/ DeployNotify
    \/ StatusRemove
    \/ RemoveTaskCall \/ RemoveTaskMark \/ RemoveTaskDetach \/ RemoveTaskProbe
    \/ RemoveTaskLoop
    \/ MarkDebug \/ AgentTaskLoad \/ AgentTaskHandle

SpecStatus == StatusInit /\ [][StatusNext]_vars

(***************************************************************************)
(* The health events of the agent on their own: an event for a container   *)
(* that is a backend already, was never checked, or was left REMOVING by a *)
(* removal that failed, and that runs a service or a cron job. request     *)
(* keeps the event and what the handler read of the container.             *)
(***************************************************************************)
AgentInit ==
    /\ probe = ProbeIdle
    /\ \E rows \in {StatusRows, UpgradeRows,
                     <<[UpgradeRows[1] EXCEPT !.override_status = REMOVING]>>} :
         /\ containers = rows /\ next_pk = Len(rows) + 1
         /\ elb = {c \in {"c1"} : rows = UpgradeRows}
    /\ published = <<>> /\ oplog = <<>> /\ notified = <<>> /\ remote = <<>>
    /\ creating = CreateIdle /\ removing = RemoveIdle /\ entry = "none"
    /\ pubsub = NoPubSub /\ stream = StreamIdle /\ ended = {}
    /\ now = 0 /\ rds = NoKeys /\ workers = NoWorkers /\ tackling = TackleIdle
    /\ upgrading = UpgradeIdle /\ watch = {} /\ agent = AgentIdle /\ request = NoRequest

\* tasks.py:266-276: the task is entered with an event
AgentEvent ==
    /\ \E data \in Events :
         /\ AgentLoad(data)
         /\ request' = [data |-> data, exit0 |-> FALSE, cron |-> FALSE]
    /\ UNCHANGED <<probe, creating, entry, stream, ended, now, tackle, upgrade>>

\* tasks.py:278-316, with the exit code and the entrypoint the handler reads
AgentOutcome ==
    /\ \E crons \in SUBSET {"c1"}, exit0 \in BOOLEAN :
         /\ AgentHandle(crons, exit0)
         /\ request' = [request EXCEPT !.exit0 = exit0, !.cron = "c1" \in crons]
    /\ UNCHANGED <<probe, creating, entry, stream, ended, now, tackle, upgrade>>

\* tasks.py:288-299: the removal of the cron container is over
AgentEnd ==
    AgentReturn /\ UNCHANGED <<probe, request, creating, entry, stream, ended, now, tackle, upgrade>>

AgentNext ==
    \/ AgentEvent \/ AgentOutcome \/ AgentEnd
    \/ RemoveTaskCall \/ RemoveTaskMark \/ RemoveTaskDetach \/ RemoveTaskProbe
    \/ RemoveTaskLoop

SpecAgent == AgentInit /\ [][AgentNext]_vars

(***************************************************************************)
(* tackle_single_app on its own, for every list of rules and every status  *)
(* of two containers.                                                      *)
(***************************************************************************)
RulesInit ==
    /\ probe = ProbeIdle
    /\ containers = <<>> /\ next_pk = 1 /\ elb = {}
    /\ published = <<>> /\ oplog = <<>> /\ notified = <<>> /\ remote = <<>>
    /\ creating = CreateIdle /\ removing = RemoveIdle /\ entry = "none"
    /\ pubsub = NoPubSub /\ stream = StreamIdle /\ ended = {}
    /\ now = 0 /\ rds = RuleKeys /\ workers = NoWorkers
    /\ \E rules \in RuleLists, status \in StatusLists :
          tackling = [pc |-> "loop", rules |-> rules, status |-> status,
                      i |-> 1, j |-> 1, calls |-> <<>>]
    /\ upgrading = UpgradeIdle /\ watch = {} /\ agent = AgentIdle /\ request = NoRequest

RulesPair ==
    TacklePair /\ UNCHANGED <<probe, agent, request, world, creating, removing, entry, reader, upgrade>>

RulesEnd ==
    TackleEnd /\ UNCHANGED <<probe, agent, request, world, creating, removing, entry, reader, upgrade>>

RulesNext == RulesPair \/ RulesEnd

SpecRules == RulesInit /\ [][RulesNext]_vars

(***************************************************************************)
(* Claims about the deploy and the probe.                                  *)
(***************************************************************************)
Successes(items) == SelectSeq(items, LAMBDA m : m.success)

\* the rows registered since create_container was entered
CreatedRows == SelectSeq(containers, LAMBDA c : c.pk >= creating.pk0)

\* C1: a deploy that ran to completion over a stream of N messages with k
\* successes registered exactly k rows, the ids of the successful messages in
\* stream order, and its good tally holds k entries, its bad tally N - k.
C1_DeployRegistersSuccesses ==
    creating.pc = "done" =>
        LET items == creating.ms.it.items
            good  == Successes(items)
            k     == Len(good)
        IN /\ Len(CreatedRows) = k
           /\ \A i \in 1..k : CreatedRows[i].container_id = good[i].id
           /\ Len(creating.good_news) = k
           /\ Len(creating.bad_news) = Len(items) - k
           /\ Len(notified[Len(notified)].good) = k
           /\ Len(notified[Len(notified)].bad) = Len(items) - k

\* a finished deploy of two messages, one successful and one failed
C1_Witness ==
    /\ creating.pc = "done"
    /\ Len(creating.ms.it.items) = 2
    /\ Len(Successes(creating.ms.it.items)) = 1

Failures(items) == SelectSeq(items, LAMBDA m : ~m.success)

Dumped(items) == [i \in 1..Len(items) |-> json_dumps(items[i])]

\* C13: a deploy sends nothing before its stream is consumed, and one summary
\* after: its good news are the successful messages, its bad news the failed
\* ones, and it has the bad-news section and the tag exactly when a message
\* failed.
C13_OneSummaryAfterStream ==
    /\ creating.pc # "done" => notified = <<>>
    /\ creating.pc = "done" =>
          LET items == creating.ms.it.items
          IN /\ Len(notified) = 1
             /\ notified[1].to = "subscribers"
             /\ notified[1].good = Dumped(Successes(items))
             /\ notified[1].bad = Dumped(Failures(items))
             /\ notified[1].tag = (Failures(items) # <<>>)

\* a finished deploy of two successful messages: a summary without the tag
C13_Witness ==
    /\ creating.pc = "done"
    /\ Len(Successes(creating.ms.it.items)) = 2
    /\ ~notified[1].tag

\* C20: a failure to register the record of a successful message does not
\* abort the deploy: create_container never ends with the exception of
\* Container.create.
C20_RegisterFailureSkipped == creating.err.type # "IntegrityError"

\* the contents published on the channel of the deploy
DeployLog ==
    LET on == SelectSeq(published, LAMBDA e : e.channel = channel_name(creating.task_id))
    IN [i \in DOMAIN on |-> on[i].content]

Sentinels == Len(SelectSeq(DeployLog, LAMBDA c : c.kind = "done"))

\* C12: the sentinel of a deploy task is published at most once, as the last
\* entry of its channel, after every message the task read from the stream
\* and, when the task succeeded, after the summary; and every dispatched
\* deploy, successful or failed, comes to publish it.
C12_SentinelOnceAtEnd ==
    /\ [](/\ Sentinels <= 1
          /\ Sentinels = 1 =>
                /\ creating.pc \in {"done", "raised"}
                /\ DeployLog[Len(DeployLog)] = TASK_PUBSUB_EOF(creating.task_id)
                /\ SubSeq(DeployLog, 1, Len(DeployLog) - 1) = Dumped(creating.res)
                /\ creating.pc = "done" => Len(notified) = 1)
    /\ (creating.pc # "idle") ~> (Sentinels = 1)

\* a deploy that published a message, failed, and published its sentinel
C12_Witness ==
    /\ creating.pc = "raised"
    /\ Len(creating.res) = 1
    /\ Sentinels = 1

\* C9: when the first read of the create stream raises a transport fault,
\* create_container has raised ActionError(500) and nothing was published,
\* registered, audited or notified.
C9_ProbeFaultAbortsDeploy ==
    (creating.pc # "idle" /\ creating.ms.it.faultAt = 1) =>
        /\ creating.pc = "raised"
        /\ creating.err = Err("ActionError", 500)
        /\ published = <<>>
        /\ containers = <<>>
        /\ oplog = <<>>
        /\ notified = <<>>

\* a deploy whose stream had elements to give but failed at the first read
C9_Witness ==
    /\ creating.pc = "raised"
    /\ creating.ms.it.faultAt = 1
    /\ creating.ms.it.faultKind = "AbortionError"

\* C10: for every stream whose first read raises no transport fault, the
\* empty stream included, _peek_grpc returns, and iterating what it returns
\* yields the elements of the stream in order, each once.
C10_PeekReturnsWholeStream ==
    (probe.pc \notin {"off", "call"} /\ probe.ms.it.faultAt # 1) =>
        /\ probe.pc \in {"iterate", "exhausted"} \cup FaultKinds
        /\ Len(probe.got) <= Len(probe.ms.it.items)
        /\ probe.got = SubSeq(probe.ms.it.items, 1, Len(probe.got))
        /\ probe.pc = "exhausted" => probe.got = probe.ms.it.items

(***************************************************************************)
(* Claims about the progress channel.                                      *)
(***************************************************************************)
\* what was published on a channel, in publish order
ChannelLog(ch) ==
    LET on == SelectSeq(published, LAMBDA e : e.channel = ch)
    IN [i \in DOMAIN on |-> on[i].content]

\* the progress messages among them: everything but the sentinel
ProgressLog(ch) == SelectSeq(ChannelLog(ch), LAMBDA c : c.kind # "done")

\* the reader subscribed to the one id t before anything was published on it
SubscribedFirst(t) ==
    /\ stream.pc # "idle"
    /\ stream.ids = <<t>>
    /\ \A i \in 1..stream.sub_at : published[i].channel # channel_name(t)

InboxHolds(content) == \E i \in DOMAIN pubsub.inbox : pubsub.inbox[i].data = content

\* C7: a reader of one task id that subscribed before the first publish has
\* been handed a prefix of the published progress messages, in publish order
\* and without repeats; once it has read the sentinel the channel is
\* unsubscribed and only the confirmation is left to read; and when its
\* stream has ended it has been handed all of them.
C7_SubscriberGetsAllInOrder ==
    \A t \in TaskIds :
        SubscribedFirst(t) =>
            LET all == ProgressLog(channel_name(t))
                seen == t \in ended /\ ~InboxHolds(TASK_PUBSUB_EOF(t))
            IN /\ Len(stream.yielded) <= Len(all)
               /\ stream.yielded = SubSeq(all, 1, Len(stream.yielded))
               /\ seen => /\ channel_name(t) \notin pubsub.subs
                           /\ stream.yielded = all
                           /\ \/ stream.pc = "closed"
                              \/ /\ Len(pubsub.inbox) = 1
                                 /\ pubsub.inbox[1].type = "unsubscribe"
               /\ stream.pc = "closed" => seen

\* a reader of t1 whose stream ended after two progress messages, while the
\* other task published too
C7_Witness ==
    /\ SubscribedFirst("t1")
    /\ stream.pc = "closed"
    /\ Len(stream.yielded) = 2
    /\ stream.yielded[1] # stream.yielded[2]
    /\ ChannelLog("t2") # <<>>

\* C8: everything the stream yields is a progress message published on one
\* of the reader's channels: never the sentinel, never the number a
\* subscribe or unsubscribe confirmation carries.
C8_SentinelNeverYielded ==
    \A i \in DOMAIN stream.yielded :
        /\ stream.yielded[i].kind = "json"
        /\ \E j \in DOMAIN published :
              /\ published[j].content = stream.yielded[i]
              /\ published[j].channel \in {channel_name(t) : t \in Range(stream.ids)}

\* a reader of two tasks that has read both sentinels and yielded a message
C8_Witness ==
    /\ stream.pc = "closed"
    /\ Len(stream.ids) = 2
    /\ ended = TaskIds
    /\ stream.yielded # <<>>

(***************************************************************************)
(* Claims about the throttle.                                              *)
(***************************************************************************)
Executed(w) == workers[w].pc \in {"running", "done"}

\* a and b both executed the body for one key, b within the cooldown window
\* that a's setex opened
SameWindow(a, b) ==
    /\ a # b
    /\ Executed(a) /\ Executed(b)
    /\ workers[a].key = workers[b].key
    /\ workers[a].armed_at <= workers[b].armed_at
    /\ workers[b].armed_at < workers[a].armed_at + workers[a].cooldown

\* C5 as stated: no two invocations of one key execute the strategy body
\* within one cooldown window, whatever the interleaving of the workers.
C5_OncePerWindow == \A a, b \in Workers : ~SameWindow(a, b)

\* C5 as amended: two invocations of one key execute the body within one
\* cooldown window only when one of the two looked the key up while another
\* invocation of the key stood between its own lookup and its setex, or
\* stood there itself while another looked the key up.
C5_OncePerWindowUnlessRaced ==
    \A a, b \in Workers : SameWindow(a, b) => workers[a].raced \/ workers[b].raced

\* two workers looked the key up before either set it, and both executed
C5_Witness ==
    \E a, b \in Workers :
        SameWindow(a, b) /\ workers[a].raced /\ workers[b].raced
                         /\ workers[a].pc = "done" /\ workers[b].pc = "done"

\* b's invocation started after a's had executed and returned, and no third
\* invocation touches their key
Sequential(a, b) ==
    /\ a # b
    /\ workers[a].pc = "done"
    /\ workers[b].pc # "idle"
    /\ workers[b].key = workers[a].key
    /\ a \in workers[b].after
    /\ \A c \in Workers \ {a, b} : workers[c].pc = "idle" \/ workers[c].key # workers[a].key

InCooldown(a, b) == workers[b].checked_at < workers[a].armed_at + workers[a].cooldown

\* C6: of two invocations of one key, one after the other, the second is
\* skipped when it comes within the cooldown of the first (one execution),
\* and executes when it comes after the key has expired (two executions).
C6_SequentialThrottle ==
    \A a, b \in Workers :
        Sequential(a, b) =>
            IF InCooldown(a, b)
            THEN /\ workers[b].pc = "skipped"
                 /\ Cardinality({w \in {a, b} : Executed(w)}) = 1
            ELSE /\ workers[b].pc # "skipped"
                 /\ workers[b].pc = "done" =>
                        Cardinality({w \in {a, b} : Executed(w)}) = 2

\* the second invocation came after the expiry and has executed too
C6_Witness ==
    \E a, b \in Workers :
        /\ Sequential(a, b)
        /\ ~InCooldown(a, b)
        /\ workers[b].pc = "done"

(***************************************************************************)
(* Claims about the removal and the upgrade.                               *)
(***************************************************************************)
Marked == {i \in 1..Len(containers) : containers[i].override_status = REMOVING}

\* C2: a removal request whose containers span two zones has failed with
\* ActionError(400) and left nothing behind: no container is marked REMOVING,
\* none was detached from the load balancer and no remote call was made,
\* whichever handler dispatched the task.
C2_CrossZoneNoSideEffect ==
    (removing.pc = "raised" /\ removing.err = Err("ActionError", 400)) =>
        /\ Marked = {}
        /\ elb = {"c1", "c2", "c3"}
        /\ remote = <<>>

\* the decision of a finished wait_for_erection that did wait
Decided == upgrading.target # "" /\ upgrading.timeout > 0

\* the store's flag of the replacement was set strictly before t
HealthyBefore(t) == \E e \in watch : e.pk = upgrading.new_pk /\ e.at < t

\* C3: when the replacement's health flag in the store became true strictly
\* before the deadline, the upgrade removes the old container; when it was not
\* true at any time up to the deadline, the upgrade removes the new one.
C3_HealthyBeforeDeadlinePromotes ==
    Decided =>
        /\ HealthyBefore(upgrading.must_end) => upgrading.target = upgrading.old_id
        /\ ~HealthyBefore(upgrading.must_end + 1) => upgrading.target = upgrading.new_id

Registered(id) == get_by_container_id(containers, id) # NoRow

\* the removal stream reported the container removed, or absent already
ReportedGone ==
    \E i \in 1..Len(removing.res) :
        \/ removing.res[i].success
        \/ "Key not found" \in removing.res[i].message
        \/ "No such container" \in removing.res[i].message

\* C4 as stated: after a completed upgrade exactly one of the old and the new
\* container is registered.
C4_ExactlyOneSurvives ==
    upgrading.pc = "done" =>
        Registered(upgrading.old_id) # Registered(upgrading.new_id)

\* C4: after a completed upgrade at least one of the old and the new container
\* is registered, and exactly one of them is when the removal stream reported
\* the removed container gone (success, or an already-absent error); otherwise
\* both are.
C4_OneSurvivesWhenRemoved ==
    upgrading.pc = "done" =>
        /\ Registered(upgrading.old_id) \/ Registered(upgrading.new_id)
        /\ ReportedGone <=> ~(Registered(upgrading.old_id) /\ Registered(upgrading.new_id))

\* a completed rollback after a wait: the new container's record is gone, the
\* old one's is there
C4_Witness ==
    /\ upgrading.pc = "done"
    /\ Decided
    /\ ~upgrading.healthy
    /\ Registered(upgrading.old_id)
    /\ ~Registered(upgrading.new_id)

\* C11: an upgrade of a registered container to a release that is missing or
\* has no image has raised ActionError(400), and no remote call was made,
\* nothing was published and the container table is as it was.
C11_UnbuiltReleaseFailsFast ==
    (upgrading.pc # "idle" /\ ~upgrading.built
        /\ get_by_container_id(UpgradeRows, upgrading.old_id) # NoRow) =>
            /\ upgrading.pc = "raised"
            /\ upgrading.err = Err("ActionError", 400)
            /\ remote = <<>>
            /\ published = <<>>
            /\ containers = UpgradeRows /\ next_pk = Len(UpgradeRows) + 1

\* an upgrade of c1 to an unbuilt release, refused
C11_Witness ==
    /\ upgrading.pc = "raised"
    /\ upgrading.old_id = "c1"
    /\ ~upgrading.built

(***************************************************************************)
(* Claims about the removal's reconciliation.                              *)
(***************************************************************************)
\* the message the turn of the loop that has just been taken was about
Handled == removing'.res[Len(removing'.res)]

\* a turn of remove_container's loop that handled a message
Turn == removing.pc = "loop" /\ Len(removing'.res) = Len(removing.res) + 1

SaysAbsent(m) ==
    ~m.success /\ ("Key not found" \in m.message \/ "No such container" \in m.message)

\* C14: a turn of the loop for a failed message with one of the two
\* already-absent texts, about a registered container, deletes the record and
\* raises nothing: the loop goes on, and nobody is notified.
C14_AbsentTextDeletes ==
    [][(Turn /\ SaysAbsent(Handled) /\ Registered(Handled.id)) =>
          /\ get_by_container_id(containers', Handled.id) = NoRow
          /\ removing'.pc = "loop"
          /\ removing'.err = NoErr
          /\ notified' = notified]_vars

\* a removal that was told 'No such container' and has returned: no record
C14_Witness ==
    /\ removing.pc = "done"
    /\ \E i \in 1..Len(removing.res) :
          /\ removing.res[i].message = {"No such container"}
          /\ ~Registered(removing.res[i].id)
    /\ Len(containers) < Len(RemoveRows)

\* the messages read so far that are about the container id
About(id) == {i \in 1..Len(removing.res) : removing.res[i].id = id}

\* a message that reports the container removed, or absent already
GoneMsg(m) == m.success \/ SaysAbsent(m)

\* the store's row of the container id
StoredRow(id) == get_by_container_id(containers, id)

\* C15: a record of the store is missing only when the stream reported success
\* or one of the two already-absent texts for its id; a container the stream
\* spoke of with other error texts only is still registered and still REMOVING.
C15_DeletedOnlyWhenGone ==
    \A k \in 1..Len(RemoveRows) :
        LET id == RemoveRows[k].container_id
        IN /\ ~Registered(id) => \E i \in About(id) : GoneMsg(removing.res[i])
           /\ (About(id) # {} /\ \A i \in About(id) : ~GoneMsg(removing.res[i])) =>
                 /\ Registered(id)
                 /\ StoredRow(id).override_status = REMOVING

\* a finished removal: one container kept after the malformed-id text,
\* another deleted after a success
C15_Witness ==
    /\ removing.pc = "done"
    /\ \E i, j \in 1..Len(removing.res) :
          /\ removing.res[i].message = {"Container ID must be length of"}
          /\ Registered(removing.res[i].id)
          /\ removing.res[j].success
          /\ ~Registered(removing.res[j].id)

\* the messages that reached the final else of the loop: a failure with none
\* of the known texts, about a container that was registered when it was read
Unexpected ==
    {i \in 1..Len(removing.res) :
        /\ ~removing.res[i].success
        /\ removing.res[i].message = {}
        /\ \A j \in About(removing.res[i].id) : j < i => ~GoneMsg(removing.res[j])}

\* C16: the operations channel holds one notification for each unexpected error
\* message, about its container; the batch is not aborted for it: every message
\* read was published, every container reported gone is deleted, and the task
\* raises only what the stream itself raised.
C16_UnexpectedErrorDoesNotAbort ==
    /\ Len(notified) = Cardinality(Unexpected)
    /\ \A i \in Unexpected :
          \E n \in 1..Len(notified) :
              notified[n].to = "#platform" /\ notified[n].about = removing.res[i].id
    /\ ChannelLog(channel_name(removing.task_id)) =
          [i \in 1..Len(removing.res) |-> json_dumps(removing.res[i])]
    /\ \A i \in 1..Len(removing.res) :
          GoneMsg(removing.res[i]) => ~Registered(removing.res[i].id)
    /\ (removing.pc = "raised" /\ removing.res # <<>>) => removing.err.type \in FaultKinds

\* a finished batch of two: the first message an unexpected error, the second
\* a success for a sibling
C16_Witness ==
    /\ removing.pc = "done"
    /\ Len(removing.res) = 2
    /\ Unexpected = {1}
    /\ removing.res[2].success
    /\ removing.res[2].id # removing.res[1].id
    /\ Registered(removing.res[1].id)
    /\ ~Registered(removing.res[2].id)
    /\ Len(notified) = 1

\* the requested ids the store knew when the request was made
Known(ids) ==
    SelectSeq(ids, LAMBDA id : get_by_container_id(RemoveRows, id) # NoRow)

Started == removing.pc \notin {"idle", "queued"}

C19_MarkedAndDetachedBeforeCall ==
    /\ remote # <<>> =>
          \A i \in 1..Len(removing.cs) :
              LET id == removing.cs[i].container_id
              IN /\ id \notin elb
                 /\ Registered(id) => StoredRow(id).override_status = REMOVING
    /\ remote = <<>> => (Len(containers) = Len(RemoveRows) /\ oplog = <<>>)

\* the remote call for two containers has just been made by a task the API
\* dispatched: both are registered, REMOVING and detached
C19_Witness ==
    /\ entry = "remove"
    /\ removing.pc = "loop" /\ removing.res = <<>>
    /\ Len(remote) = 1 /\ Len(remote[1].ids) = 2
    /\ remote[1].ids[1] # remote[1].ids[2]
    /\ \A i \in 1..2 : StoredRow(remote[1].ids[i]).override_status = REMOVING

(***************************************************************************)
(* Claims about the status columns.                                        *)
(***************************************************************************)
\* C17: no step writes NONE to a record that exists and is not NONE already:
\* in particular a REMOVING record never becomes NONE again, and a record
\* leaves NONE for DEBUG or REMOVING only. The steps are those of create,
\* mark_debug, mark_removing, mark_initialized and the health events.
C17_NoneNeverWrittenBack ==
    [][\A i \in 1..Len(containers) : \A j \in 1..Len(containers') :
          containers[i].pk = containers'[j].pk =>
              /\ containers'[j].override_status \in {NONE, DEBUG, REMOVING}
              /\ containers'[j].override_status = NONE =>
                    containers[i].override_status = NONE]_vars

\* a health event's handler looked the container up while it was NONE, the
\* removal marked it REMOVING, and the handler then wrote initialized
C17_Witness ==
    /\ agent.pc = "done"
    /\ agent.container.override_status = NONE
    /\ agent.container.initialized = 0
    /\ StoredRow(agent.container.container_id).override_status = REMOVING
    /\ StoredRow(agent.container.container_id).initialized = 1

(***************************************************************************)
(* Claims about the deadline of an upgrade.                                *)
(***************************************************************************)
\* wait_for_erection has been entered for the replacement
Erecting == upgrading.new_id # ""

C22_ZeroTimeoutNeverWaits ==
    (Erecting /\ request.erection_timeout = 0) =>
        /\ upgrading.polls = 0 /\ now = request.at
        /\ upgrading.pc \in {"decide", "remove"}
        /\ upgrading.healthy

\* the places of the upgrade's outcome note in what was published
OutcomeNotes ==
    {k \in 1..Len(published) :
        /\ published[k].channel = channel_name(upgrading.task_id)
        /\ \/ published[k].content =
                make_sentence_json("New container OK, remove old container", upgrading.old_id)
           \/ published[k].content =
                make_sentence_json("New container SO SICK, have to remove", upgrading.new_id)}

\* C23: when the removal of an upgrade has been invoked, the outcome note is
\* on the upgrade's channel, and everything the removal published comes after
\* it; when the replacement was not healthy the removal is that of the new
\* container alone, and the old container's record, its override status and
\* its place in the load balancer are as they were before the upgrade.
C23_NoteThenRemoval ==
    (upgrading.pc # "idle" /\ removing.pc # "idle") =>
        /\ \E k \in OutcomeNotes :
              /\ OutcomeNotes = {k}
              /\ Len(published) = k + Len(removing.res)
        /\ ~upgrading.healthy =>
              /\ removing.ids = <<upgrading.new_id>>
              /\ \A i \in 1..Len(remote) :
                    remote[i].op = "remove_container" => remote[i].ids = <<upgrading.new_id>>
              /\ StoredRow(upgrading.old_id) = UpgradeRows[1]
              /\ upgrading.old_id \in elb

\* a rollback that ran to its end: the new container removed, the old one there
C23_Witness ==
    /\ upgrading.pc = "done"
    /\ ~upgrading.healthy
    /\ upgrading.target = upgrading.new_id
    /\ Len(removing.res) > 0
    /\ ~Registered(upgrading.new_id)
    /\ Registered(upgrading.old_id)

(***************************************************************************)
(* Claims about the throttle's key.                                        *)
(***************************************************************************)
\* C24: the step that skips an invocation leaves the keys and their expiries
\* as they are, and a skipped invocation does nothing more; the step that
\* enters the strategy body is the one that sets the key, to expire a cooldown
\* from then; the end of the body, failed or not, leaves the keys alone, so the
\* key of a body that failed is still there until its cooldown has passed
\* (unless an overlapping invocation set it again).
C24_ArmedBeforeBody ==
    /\ [][\A w \in Workers :
            /\ (workers[w].pc = "idle" /\ workers'[w].pc = "skipped") => rds' = rds
            /\ workers[w].pc = "skipped" => workers'[w] = workers[w]
            /\ (workers[w].pc # "running" /\ workers'[w].pc = "running") =>
                  /\ rds'[workers'[w].key] = now + workers'[w].cooldown
                  /\ KeyInRds(rds', workers'[w].key, now)
            /\ (workers[w].pc = "running" /\ workers'[w].pc = "done") => rds' = rds]_vars
    /\ [](\A w \in Workers :
            (workers[w].pc = "done" /\ ~workers[w].raced
                /\ now < workers[w].armed_at + workers[w].cooldown) =>
                    KeyInRds(rds, workers[w].key, now))

\* a body that failed, and a later invocation for the same key that was
\* skipped while the key was there
C24_Witness ==
    \E w, v \in Workers :
        /\ workers[w].pc = "done" /\ workers[w].failed
        /\ workers[v].pc = "skipped" /\ workers[v].key = workers[w].key
        /\ w \in workers[v].after
        /\ KeyInRds(rds, workers[w].key, now)

(***************************************************************************)
(* Claims about the health events of the agent.                            *)
(***************************************************************************)
\* the handler has run to its end for the container it looked up
Reconciled == agent.pc = "done" /\ agent.container # NoRow

\* a message to the subscribers about the container of the event
ToldSubscribers ==
    \E i \in DOMAIN notified :
        /\ notified[i].to = "subscribers"
        /\ notified[i].about = agent.container.container_id

\* C25: after a health event for an alive but unhealthy container that was
\* initialized already and is not marked REMOVING, the subscribers have been
\* notified of the demotion.
C25_DemotionNotified ==
    (/\ Reconciled /\ agent.alive /\ ~agent.healthy
     /\ agent.container.initialized = 1
     /\ agent.container.override_status # REMOVING)
        => ToldSubscribers

\* the 'Dead container' messages among the sent ones
FailureNotes(sent) ==
    {i \in DOMAIN sent : sent[i].to = "subscribers" /\ sent[i].bad # <<>>}

\* the primary keys of the rows marked initialized
InitializedPks(rows) == {rows[i].pk : i \in {j \in DOMAIN rows : rows[j].initialized = 1}}

\* C26: the handling of an event with alive false, the removal it triggers
\* included, attaches no container and marks none initialized; its first step
\* detaches the container, it starts the removal of the container exactly
\* when the exit code is zero and the entrypoint is a cron entrypoint, and it
\* sends the dead-container message exactly when the exit code is not zero
\* and the looked-up container is not marked REMOVING; the return from the
\* removal sends no dead-container message.
C26_DeadEvent ==
    [][(agent.pc \in {"loaded", "call"} /\ ~agent.alive) =>
          /\ elb' \subseteq elb
          /\ InitializedPks(containers') \subseteq InitializedPks(containers)
          /\ (agent.pc = "loaded" /\ agent' # agent) =>
                /\ agent.container.container_id \notin elb'
                /\ (agent'.pc = "call") <=> (request'.exit0 /\ request'.cron)
                /\ (agent'.pc = "call") =>
                       removing' = RemoveQueued(NoTask, <<agent.container.container_id>>)
                /\ (agent'.pc # "call") => removing' = removing
                /\ containers' = containers
                /\ IF ~request'.exit0 /\ agent.container.override_status # REMOVING
                   THEN /\ Len(notified') = Len(notified) + 1
                        /\ FailureNotes(notified') = FailureNotes(notified) \cup {Len(notified')}
                        /\ notified'[Len(notified')].about = agent.container.container_id
                   ELSE FailureNotes(notified') = FailureNotes(notified)
          /\ (agent.pc = "call" /\ agent' # agent) =>
                FailureNotes(notified') = FailureNotes(notified)]_vars

\* a backend that died with a non-zero exit code was detached and reported
C26_Witness ==
    /\ Reconciled /\ ~agent.alive
    /\ ~request.exit0 /\ agent.container.initialized = 1
    /\ agent.container.override_status # REMOVING
    /\ FailureNotes(notified) # {} /\ elb = {}

\* a cron container that ended with exit code 0 was removed, its record deleted
CronRemoved ==
    /\ Reconciled /\ ~agent.alive
    /\ request.exit0 /\ request.cron /\ removing.pc = "done"
    /\ removing.task_id = NoTask /\ containers = <<>>

Discarded(data, rows) ==
    \/ None \in {data.ID, data.Healthy, data.Alive, data.Name}
    \/ get_by_container_id(rows, data.ID) = NoRow

\* C28: the task entered with an event that lacks a field, or that names a
\* container without a record, returns at once and changes nothing: no row
\* of the registry, no load-balancer membership, no removal, no message; and
\* every other event is taken up with the container it names.
C28_DiscardedEventChangesNothing ==
    [][(agent'.events = agent.events + 1) =>
          IF Discarded(request'.data, containers)
          THEN /\ agent'.pc = "done" /\ agent'.container = NoRow
               /\ UNCHANGED <<containers, next_pk, elb, removing, notified,
                              published, oplog, remote, creating, upgrading>>
          ELSE /\ agent'.pc = "loaded"
               /\ agent'.container.container_id = request'.data.ID]_vars

\* an event with all its fields that reports an unknown container healthy
\* was discarded while the registered container stayed out of the backends
C28_Witness ==
    /\ agent.pc = "done" /\ agent.container = NoRow /\ agent.events > 0
    /\ request.data = [ID |-> "x9", Healthy |-> "true", Alive |-> "true", Name |-> "app"]
    /\ containers = StatusRows /\ elb = {}

(***************************************************************************)
(* Claims about the status-flag writes.                                    *)
(***************************************************************************)
\* C30: no health reconciliation ends with the stale-data conflict of a
\* status-flag write: the conflict is swallowed and the handler goes on.
C30_StaleWriteSwallowed ==
    ~(agent.pc = "raised" /\ agent.err.type = "StaleDataError")

(***************************************************************************)
(* Claims about tackle_single_app.                                         *)
(***************************************************************************)
\* the (rule, container) pairs the loops have been through
Tackled ==
    {pq \in (1..Len(tackling.rules)) \X (1..Len(tackling.status)) :
        \/ pq[1] < tackling.i
        \/ pq[1] = tackling.i /\ pq[2] < tackling.j
        \/ pq[1] = tackling.i /\ pq[2] = tackling.j /\ tackling.pc = "raised"}

\* the calls of a strategy made for a pair
CallsFor(pq) ==
    {n \in DOMAIN tackling.calls :
        /\ tackling.calls[n].rule = pq[1]
        /\ tackling.calls[n].c = tackling.status[pq[2]].name}

BetweenCreates ==
    /\ creating.pc # "idle"
    /\ creating.err.type # "IntegrityError"

\* the removal stands between two messages, or has stopped there
BetweenRemoves ==
    /\ removing.pc \in {"loop", "done", "raised"}
    /\ removing.cs # <<>>
    /\ removing.err.code # 400

\* C31: wherever a deploy stands or has stopped between two messages, its
\* channel holds the messages it has handled, in stream order, and the rows
\* registered since it began are those of the successful ones among them, in
\* stream order, each with its audit entry; wherever a removal stands or has
\* stopped, its channel holds the messages it has handled, in stream order,
\* and a container of the request has lost its record exactly when one of
\* them reported it removed or absent already. (The messages not handled yet
\* have not been read from the remote stream.)
C31_PrefixAtEveryStop ==
    /\ BetweenCreates =>
          /\ ProgressLog(channel_name(creating.task_id)) = Dumped(creating.res)
          /\ [i \in DOMAIN CreatedRows |-> CreatedRows[i].container_id]
                 = [i \in DOMAIN Successes(creating.res) |-> Successes(creating.res)[i].id]
          /\ Len(SelectSeq(oplog, LAMBDA e : e.op = "CREATE_CONTAINER"))
                 = Len(Successes(creating.res))
    /\ BetweenRemoves =>
          /\ ProgressLog(channel_name(removing.task_id)) = Dumped(removing.res)
          /\ \A n \in DOMAIN removing.cs :
                (\A k \in DOMAIN containers : containers[k].pk # removing.cs[n].pk)
                    <=> (\E k \in DOMAIN removing.res :
                            /\ removing.res[k].id = removing.cs[n].container_id
                            /\ GoneMsg(removing.res[k]))

\* a deploy was stopped by a fault of the stream after it had handled a
\* successful message: that message is on the channel and in the registry
C31_Witness ==
    /\ creating.pc = "raised" /\ creating.err.type # "IntegrityError"
    /\ Len(creating.res) >= 1 /\ creating.res[1].success
    /\ Len(CreatedRows) = 1
    /\ ProgressLog(channel_name(creating.task_id)) = Dumped(creating.res)

\* C32: a container whose record a removal has deleted is no backend of the
\* load balancer, whatever health events were handled in between.
C32_DeletedIsNoBackend ==
    \A n \in DOMAIN removing.cs :
        (/\ removing.pc \in {"loop", "done", "raised"}
         /\ \A k \in DOMAIN containers : containers[k].pk # removing.cs[n].pk)
            => removing.cs[n].container_id \notin elb

\* C33: the response stream of one task, whenever it subscribed, has been
\* handed every progress message of the task and has ended once the task has
\* published its sentinel and nothing is left to read.
C33_LateSubscriberGetsAll ==
    \A t \in TaskIds :
        (/\ stream.pc # "idle" /\ stream.ids = <<t>>
         /\ t \in ended /\ pubsub.inbox = <<>>)
            => /\ stream.pc = "closed"
               /\ stream.yielded = ProgressLog(channel_name(t))

(***************************************************************************)
(* Claims about the error paths of removal and upgrade.                    *)
(***************************************************************************)
\* C34: when the first read of the removal stream raises a transport fault,
\* remove_container has raised ActionError(500); every record is still there,
\* nothing was audited or published, and the containers of the request are
\* marked REMOVING and are no backends of the load balancer.
C34_ProbeFaultLeavesMarks ==
    (removing.pc # "idle" /\ removing.ms.it.faultAt = 1) =>
        /\ removing.pc = "raised"
        /\ removing.err = Err("ActionError", 500)
        /\ [k \in DOMAIN containers |-> containers[k].pk]
               = [k \in DOMAIN RemoveRows |-> RemoveRows[k].pk]
        /\ oplog = <<>> /\ published = <<>> /\ removing.res = <<>>
        /\ removing.cs # <<>>
        /\ \A n \in DOMAIN removing.cs :
              /\ StoredRow(removing.cs[n].container_id).override_status = REMOVING
              /\ removing.cs[n].container_id \notin elb

\* the removal of two backends of one zone failed at the probe
C34_Witness ==
    /\ removing.pc = "raised" /\ removing.ms.it.faultAt = 1
    /\ full_ids(removing.cs) = <<"c1", "c3">>
    /\ elb = {"c2"}
    /\ containers[1].override_status = REMOVING /\ containers[3].override_status = REMOVING
    /\ containers[2].override_status = NONE

NoReplacement ==
    \/ creating.pc = "raised"
    \/ creating.res = <<>>
    \/ \A k \in 1..Len(creating.res) :
          creating.res[k].id = creating.res[1].id => ~creating.res[k].success

\* the old container as it was before the upgrade, and no removal begun
OldUntouched ==
    /\ removing = RemoveIdle
    /\ \A i \in 1..Len(remote) : remote[i].op # "remove_container"
    /\ StoredRow(upgrading.old_id) = UpgradeRows[1]
    /\ upgrading.old_id \in elb

\* C36 as stated: once an upgrade whose first create message is not a success
\* has left its create step, it has raised, no removal was invoked and the old
\* container is neither marked REMOVING, nor detached, nor deleted.
C36_FailedFirstMessageStops ==
    (/\ upgrading.pc \notin {"idle", "create"}
     /\ Registered(upgrading.old_id) /\ upgrading.built
     /\ creating.res # <<>> /\ ~creating.res[1].success)
        => upgrading.pc = "raised" /\ OldUntouched

\* C36 as the code has it: once an upgrade whose create call raised, or gave
\* no record for the id of its first message, has left its create step, it
\* has raised, no removal was invoked and the old container is neither marked
\* REMOVING, nor detached, nor deleted; the success flag of the first message
\* is not looked at.
C36_NoRecordStops ==
    (/\ upgrading.pc \notin {"idle", "create"}
     /\ get_by_container_id(UpgradeRows, upgrading.old_id) # NoRow /\ upgrading.built
     /\ NoReplacement)
        => upgrading.pc = "raised" /\ OldUntouched

\* the lookup of a failed first message's id found nothing and the upgrade
\* ended there, the old container in place
C36_Witness ==
    /\ upgrading.pc = "raised"
    /\ upgrading.err = Err("AttributeError", 0)
    /\ creating.res # <<>> /\ ~creating.res[1].success
    /\ OldUntouched


\* C37: the step of the respawn body taken while the container of the status
\* is marked REMOVING ends the invocation without a failure and changes
\* neither the registry, nor the load balancer, nor what was published, sent
\* or asked of the remote, nor the state of any creation, removal or upgrade,
\* although the throttle key of the pair is set and not expired: no upgrade is
\* begun, then or later
C37_RemovingIsNotRespawned ==
    [][(/\ workers[1].pc = "running"
        /\ Registered("c1")
        /\ StoredRow("c1").override_status = REMOVING)
          => /\ workers'[1].pc = "done" /\ ~workers'[1].failed
             /\ UNCHANGED <<world, creating, removing, upgrade, rds>>
             /\ upgrading = UpgradeIdle /\ remote = <<>>
             /\ KeyInRds(rds, RespawnKey, now)]_vars

\* the invocation is over for a REMOVING container, its key set and nothing
\* else done
C37_Witness ==
    /\ workers[1].pc = "done" /\ ~workers[1].failed
    /\ StoredRow("c1").override_status = REMOVING
    /\ KeyInRds(rds, RespawnKey, now)
    /\ upgrading = UpgradeIdle /\ creating = CreateIdle /\ removing = RemoveIdle
    /\ remote = <<>> /\ published = <<>> /\ notified = <<>>


(***************************************************************************)
(* Claims about the initialized flag.                                      *)
(***************************************************************************)
\* C38: in every step, a record that stays in the registry and has
\* initialized = 1 keeps it; a record whose initialized goes from 0 to 1 is
\* the one a health event with alive true was loaded for, in the step that
\* ends the handling of that event; and a record that is new to the registry
\* has initialized = 0.
C38_InitializedMonotonic ==
    [][\A j \in DOMAIN containers' :
          LET old == RowByPk(containers, containers'[j].pk)
          IN IF old = NoRow
             THEN containers'[j].initialized = 0
             ELSE /\ old.initialized = 1 => containers'[j].initialized = 1
                  /\ (old.initialized = 0 /\ containers'[j].initialized = 1)
                        => /\ agent.pc = "loaded" /\ agent.alive
                           /\ agent.container.pk = old.pk
                           /\ agent'.pc = "done"]_vars

\* a record that a health event initialized has been marked REMOVING since the
\* event's lookup, and is initialized still
C38_Witness ==
    /\ agent.pc = "done" /\ agent.alive
    /\ agent.container # NoRow
    /\ agent.container.initialized = 0 /\ agent.container.override_status = NONE
    /\ LET r == RowByPk(containers, agent.container.pk)
       IN r # NoRow /\ r.initialized = 1 /\ r.override_status = REMOVING

=============================================================================
